---- MODULE Spec2Model ----
(***************************************************************************)
(* Model of the mod.io mirror: the scheduler's two sync cycles             *)
(* (runFullSynchronization, processRecentChangesViaEvents), the Redis      *)
(* repository they write through pipelines, and the mod.io source they     *)
(* read.  Strings are sequences of one-character strings so that           *)
(* normalisation, key formatting and the lexical range query are computed  *)
(* as the code computes them.                                              *)
(***************************************************************************)
EXTENDS Integers, Sequences, FiniteSets, TLC

(* ------------------------------------------------------------ bounds --- *)

\* Mod IDs Redis and mod.io can hold: 1..MaxModID.
MaxModID == 2
\* Of these, the IDs mod.io publishes under while the scheduler runs against
\* its changing catalog: 1..MaxLiveModID.
MaxLiveModID == 1
\* The source clock (Unix seconds, scaled) starts at 1, every change at the
\* source takes one second, and the clock stops at MaxTime.
MaxTime == 2
\* Transient failures (network, Redis, deadline) injected in one behaviour.
MaxFaults == 1

(* ----------------------------------------------------------- strings --- *)

\* Byte values of the characters the model uses (Go compares strings bytewise;
\* Redis ZRANGEBYLEX compares members with memcmp).
Ord ==
  (" " :> 32) @@ ("1" :> 49) @@ ("2" :> 50) @@ ("3" :> 51) @@ ("4" :> 52) @@
  (":" :> 58) @@ ("A" :> 65) @@ ("D" :> 68) @@ ("H" :> 72) @@ ("M" :> 77) @@ ("S" :> 83) @@
  ("W" :> 87) @@
  ("a" :> 97) @@ ("b" :> 98) @@ ("c" :> 99) @@ ("d" :> 100) @@ ("e" :> 101) @@
  ("h" :> 104) @@ ("i" :> 105) @@ ("m" :> 109) @@ ("n" :> 110) @@ ("p" :> 112) @@
  ("r" :> 114) @@ ("s" :> 115) @@ ("t" :> 116) @@ ("w" :> 119) @@ ("\\xff" :> 255)

\* strings.ToLower on the characters of the model.
LowerOf ==
  ("A" :> "a") @@ ("D" :> "d") @@ ("H" :> "h") @@ ("M" :> "m") @@ ("S" :> "s") @@
  ("W" :> "w")

ToLower(s) ==
  [i \in 1..Len(s) |-> IF s[i] \in DOMAIN LowerOf THEN LowerOf[s[i]] ELSE s[i]]

RECURSIVE TrimLeft(_)
TrimLeft(s) ==
  IF s # << >> /\ Head(s) = " " THEN TrimLeft(Tail(s)) ELSE s

RECURSIVE TrimRight(_)
TrimRight(s) ==
  IF s # << >> /\ s[Len(s)] = " " THEN TrimRight(SubSeq(s, 1, Len(s) - 1)) ELSE s

\* strings.TrimSpace
TrimSpace(s) == TrimRight(TrimLeft(s))

\* strings.EqualFold (ASCII)
EqualFold(s, t) == ToLower(s) = ToLower(t)

\* strings.HasPrefix
HasPrefix(s, p) == Len(p) <= Len(s) /\ SubSeq(s, 1, Len(p)) = p

\* Bytewise s <= t.
RECURSIVE LexLeq(_, _)
LexLeq(s, t) ==
  IF s = << >> THEN TRUE
  ELSE IF t = << >> THEN FALSE
  ELSE IF Ord[Head(s)] < Ord[Head(t)] THEN TRUE
  ELSE IF Ord[Head(s)] > Ord[Head(t)] THEN FALSE
  ELSE LexLeq(Tail(s), Tail(t))

\* strconv.Itoa of a non-negative integer.
DecimalDigits == << "0", "1", "2", "3", "4", "5", "6", "7", "8", "9" >>
RECURSIVE Itoa(_)
Itoa(n) ==
  IF n < 10 THEN << DecimalDigits[n + 1] >>
  ELSE Itoa(n \div 10) \o << DecimalDigits[(n % 10) + 1] >>

\* strconv.Atoi on a one-digit string; 0 with an error otherwise.
Atoi(s) ==
  IF Len(s) = 1 /\ s[1] \in {"1", "2", "3", "4"} THEN Ord[s[1]] - 48 ELSE 0

\* The elements of a sequence.
Range(s) == {s[i] : i \in 1..Len(s)}

\* A finite set of integers as an ascending sequence.
RECURSIVE SortedSeq(_)
SortedSeq(S) ==
  IF S = {} THEN << >>
  ELSE LET m == CHOOSE x \in S : \A y \in S : x <= y
       IN  << m >> \o SortedSeq(S \ {m})

\* A finite set of strings as a bytewise ascending sequence.
RECURSIVE LexSortedSeq(_)
LexSortedSeq(S) ==
  IF S = {} THEN << >>
  ELSE LET m == CHOOSE x \in S : \A y \in S : LexLeq(x, y)
       IN  << m >> \o LexSortedSeq(S \ {m})

\* Concatenation of a sequence of sequences.
RECURSIVE Flatten(_)
Flatten(ss) == IF ss = << >> THEN << >> ELSE Head(ss) \o Flatten(Tail(ss))

(* ------------------------------------------------------ tags and mods --- *)

MapTag == << "M", "a", "p" >>
ScriptModTag == << "S", "c", "r", "i", "p", "t" >>
\* A tag that is neither type tag.
HDTag == << "H", "D" >>
\* modTypeTag == "" in the scheduler: no type determined.
NoTypeTag == << >>

ModIDs == 1..MaxModID
LiveModIDs == 1..MaxLiveModID
\* No mod: a nil *modio.Mod, an absent key.
NoMod == [id |-> 0, name |-> << >>, tags |-> << >>, dateUpdated |-> 0]

\* repository.GetModTypeFromTag
GetModTypeFromTag(itemTypeTag) ==
  IF EqualFold(itemTypeTag, MapTag) THEN << "m", "a", "p" >>
  ELSE IF EqualFold(itemTypeTag, ScriptModTag) THEN << "s", "c", "r", "i", "p", "t" >>
  ELSE ToLower(TrimSpace(itemTypeTag))

\* repository.normalizeStringForIndex
normalizeStringForIndex(s) == ToLower(TrimSpace(s))

\* The (name, tags) a mod can have at the source.
Versions ==
  { [name |-> << "A" >>,       tags |-> << MapTag >>],
    [name |-> << "a", "b" >>,  tags |-> << MapTag, HDTag >>],
    [name |-> << "a", "b" >>,  tags |-> << ScriptModTag >>],
    [name |-> << " ", "b" >>,  tags |-> << ScriptModTag, MapTag >>],
    [name |-> << "b" >>,       tags |-> << HDTag >>] }

\* A tag that is no type tag, as mod.io's catalog carries many.
WinterTag == << "W", "i", "n", "t", "e", "r" >>

TagNames == UNION {Range(v.tags) : v \in Versions} \cup {WinterTag}
NormTags == {normalizeStringForIndex(t) : t \in TagNames}
ModTypes == {GetModTypeFromTag(t) : t \in {MapTag, ScriptModTag, NoTypeTag}}
MapType == GetModTypeFromTag(MapTag)
ScriptType == GetModTypeFromTag(ScriptModTag)

\* The type loop of the scheduler (part_001 125-141, 169-178): the first tag that
\* is a type tag decides.
RECURSIVE FirstTypeTag(_)
FirstTypeTag(tags) ==
  IF tags = << >> THEN NoTypeTag
  ELSE IF Head(tags) = MapTag THEN MapTag
  ELSE IF Head(tags) = ScriptModTag THEN ScriptModTag
  ELSE FirstTypeTag(Tail(tags))

(* ----------------------------------------------------- the Redis store --- *)

IdStrs == {Itoa(n) : n \in ModIDs}

\* The "normalizedtitle:id" members of the title sorted sets.
TitleMember(name, modIDStr) == normalizeStringForIndex(name) \o << ":" >> \o modIDStr

\* Redis with no key set.  mods: the "mod:<id>" strings (NoMod: no key); typeSets:
\* "mods:type:<type>"; titles: "mod_titles:<type>" (every score is 0, so the set
\* of members is the sorted set); dates: "mods_by_dateupdated:<type>" as
\* member/score pairs; tagSets: "tag:<tag>:<type>"; evTs and writeTs: the two
\* watermark keys (0: no key).
EmptyStore ==
  [ mods     |-> [k \in IdStrs |-> NoMod],
    typeSets |-> [t \in ModTypes |-> {}],
    titles   |-> [t \in ModTypes |-> {}],
    dates    |-> [t \in ModTypes |-> {}],
    tagSets  |-> [k \in NormTags \X ModTypes |-> {}],
    evTs     |-> 0,
    writeTs  |-> 0 ]

\* One queued pipeline command.
Cmd(op, key, member, score, val) ==
  [op |-> op, key |-> key, member |-> member, score |-> score, val |-> val]

\* The effect of one command on the store.
ApplyCmd(s, c) ==
  LET fam == c.key[1] IN
  CASE c.op = "SET" -> [s EXCEPT !.mods[c.member] = c.val]
    [] c.op = "DEL" -> [s EXCEPT !.mods[c.member] = NoMod]
    [] c.op = "SADD" /\ fam = "type" ->
         [s EXCEPT !.typeSets[c.key[2]] = @ \cup {c.member}]
    [] c.op = "SREM" /\ fam = "type" ->
         [s EXCEPT !.typeSets[c.key[2]] = @ \ {c.member}]
    [] c.op = "SADD" /\ fam = "tag" ->
         [s EXCEPT !.tagSets[<< c.key[2], c.key[3] >>] = @ \cup {c.member}]
    [] c.op = "SREM" /\ fam = "tag" ->
         [s EXCEPT !.tagSets[<< c.key[2], c.key[3] >>] = @ \ {c.member}]
    [] c.op = "ZADD" /\ fam = "title" ->
         [s EXCEPT !.titles[c.key[2]] = @ \cup {c.member}]
    [] c.op = "ZREM" /\ fam = "title" ->
         [s EXCEPT !.titles[c.key[2]] = @ \ {c.member}]
    [] c.op = "ZADD" /\ fam = "date" ->
         [s EXCEPT !.dates[c.key[2]] =
            {e \in @ : e.member # c.member}
              \cup {[member |-> c.member, score |-> c.score]}]
    [] c.op = "ZREM" /\ fam = "date" ->
         [s EXCEPT !.dates[c.key[2]] = {e \in @ : e.member # c.member}]

\* pipe.Exec: the commands in queue order.
RECURSIVE ApplyPipe(_, _)
ApplyPipe(s, pipe) ==
  IF pipe = << >> THEN s ELSE ApplyPipe(ApplyCmd(s, Head(pipe)), Tail(pipe))

\* A pipe.Exec that returns an error: the stores it can leave, one for each
\* number of leading commands that took effect (none to all of them).
RECURSIVE FailedExecStores(_, _)
FailedExecStores(s, pipe) ==
  IF pipe = << >> THEN {s}
  ELSE {s} \cup FailedExecStores(ApplyCmd(s, Head(pipe)), Tail(pipe))

(* ---------------------------------------------------- the repository --- *)

\* The primary-key delete the scheduler queues itself (pipe.Del(ModKeyPrefix+id)).
DelModKey(modIDStr) == Cmd("DEL", << "mod" >>, modIDStr, 0, NoMod)

\* The SADD/SREM of one tag set per tag of the mod, in tag order.
TagCmds(op, tags, modType, modIDStr) ==
  [i \in 1..Len(tags) |->
     Cmd(op, << "tag", normalizeStringForIndex(tags[i]), modType >>, modIDStr, 0, NoMod)]

AddModCommandsToPipeline(mod, itemTypeTag) ==
  LET modType == GetModTypeFromTag(itemTypeTag)
      modIDStr == Itoa(mod.id)
  IN  << Cmd("SET", << "mod" >>, modIDStr, 0, mod),
         Cmd("SADD", << "type", modType >>, modIDStr, 0, NoMod),
         Cmd("ZADD", << "title", modType >>, TitleMember(mod.name, modIDStr), 0, NoMod),
         Cmd("ZADD", << "date", modType >>, modIDStr, mod.dateUpdated, NoMod) >>
      \o TagCmds("SADD", mod.tags, modType, modIDStr)

\* A removal that deletes the record and leaves the index entries behind.
RecordOnlyRemoved(mod, itemTypeTag) == << DelModKey(Itoa(mod.id)) >>

AddRemoveModCommandsFromPipeline(mod, itemTypeTag) ==
  LET modType == GetModTypeFromTag(itemTypeTag)
      modIDStr == Itoa(mod.id)
  IN  << Cmd("DEL", << "mod" >>, modIDStr, 0, NoMod),
         Cmd("SREM", << "type", modType >>, modIDStr, 0, NoMod),
         Cmd("ZREM", << "title", modType >>, TitleMember(mod.name, modIDStr), 0, NoMod),
         Cmd("ZREM", << "date", modType >>, modIDStr, 0, NoMod) >>
      \o TagCmds("SREM", mod.tags, modType, modIDStr)

\* A cleanup that takes the item out of the tag set of every old tag.
AllOldTagsRemoved(oldMod, newMod, itemTypeTag) ==
  TagCmds("SREM", oldMod.tags, GetModTypeFromTag(itemTypeTag), Itoa(oldMod.id))

\* The old tags (normalised) the new mod lacks, one SREM each.  The code ranges
\* over a Go map, whose order is unspecified; the model queues them in bytewise
\* order (the order matters only to a pipeline that fails part-way).
RemoveOrphanedTagIndexEntries(oldMod, newMod, itemTypeTag) ==
  LET modType == GetModTypeFromTag(itemTypeTag)
      modIDStr == Itoa(oldMod.id)
      oldTags == {normalizeStringForIndex(t) : t \in Range(oldMod.tags)}
      newTags == IF newMod = NoMod THEN {}
                 ELSE {normalizeStringForIndex(t) : t \in Range(newMod.tags)}
      gone == LexSortedSeq(oldTags \ newTags)
  IN  [i \in 1..Len(gone) |->
         Cmd("SREM", << "tag", gone[i], modType >>, modIDStr, 0, NoMod)]


\* GetModByID on a reachable Redis: the decoded record, or NoMod (nil, nil).
GetModByID(s, modID) == s.mods[Itoa(modID)]

\* GetAllModIDsByType: SMEMBERS of the type set.  Redis returns the members in no
\* particular order; the model lists them in ascending order.
GetAllModIDsByType(s, modType) ==
  LexSortedSeq(s.typeSets[normalizeStringForIndex(modType)])

\* A bulk read that gives up (returns nothing) when a requested key is missing.
GetModsByIDsStrict(s, modIDs) ==
  IF \E i \in 1..Len(modIDs) : modIDs[i] \notin DOMAIN s.mods \/ s.mods[modIDs[i]] = NoMod
    THEN << >>
    ELSE [i \in 1..Len(modIDs) |-> s.mods[modIDs[i]]]

\* GetModsByIDs: MGET, then the records that exist, in request order.
RECURSIVE GetModsByIDs(_, _)
GetModsByIDs(s, modIDs) ==
  IF modIDs = << >> THEN << >>
  ELSE (IF Head(modIDs) \in IdStrs /\ s.mods[Head(modIDs)] # NoMod
          THEN << s.mods[Head(modIDs)] >> ELSE << >>)
       \o GetModsByIDs(s, Tail(modIDs))

\* SearchTitlesByPrefix: ZRANGEBYLEX key [prefix [prefix\xff LIMIT 0 count.
\* A negative count means no limit.
SearchTitlesByPrefix(s, modTypeTag, prefix, count) ==
  LET modType == GetModTypeFromTag(modTypeTag)
      normalizedPrefix == normalizeStringForIndex(prefix)
      inRange == {m \in s.titles[modType] :
                    /\ LexLeq(normalizedPrefix, m)
                    /\ LexLeq(m, normalizedPrefix \o << "\\xff" >>)}
      all == LexSortedSeq(inRange)
  IN  IF normalizedPrefix = << >> THEN << >>
      ELSE IF count < 0 \/ count >= Len(all) THEN all
      ELSE SubSeq(all, 1, count)

\* GetModIDsByTag: SMEMBERS of one tag set.
GetModIDsByTag(s, modTypeTag, tagName) ==
  s.tagSets[<< normalizeStringForIndex(tagName), GetModTypeFromTag(modTypeTag) >>]

(* ------------------------------------------------- the mod.io source --- *)

VARIABLES
  srcMods,     \* the catalog at mod.io: mod ID -> mod, or NoMod
  srcEvents,   \* mod.io's event log, oldest first
  now,         \* the clock (mod.io's timestamps and time.Now())
  rdb,         \* Redis
  updateMu,    \* Scheduler.updateMu: TRUE when locked
  pc,          \* where each goroutine is
  loc,         \* the locals of the cycle each goroutine is running
  tickC,       \* the two tickers' channels (capacity 1): ticks waiting
  stopChan,    \* TRUE once Scheduler.stopChan is closed
  baseCtx,     \* TRUE once cancelAll() has cancelled baseCtx
  deadline,    \* per goroutine: TRUE once its cycle context's deadline has passed
  faults       \* transient failures injected so far

vars ==
  << srcMods, srcEvents, now, rdb, updateMu, pc, loc, tickC, stopChan, baseCtx,
     deadline, faults >>

srcVars == << srcMods, srcEvents, now >>
schedVars == << updateMu, pc, loc, tickC, stopChan, baseCtx, deadline >>

\* The event kinds mod.io reports here.
DeleteKinds == {"MOD_DELETED", "MOD_UNAVAILABLE"}
UpdateKinds == {"MOD_AVAILABLE", "MOD_EDITED", "MODFILE_CHANGED"}
OtherKind == "MOD_TEAM_CHANGED"

ModioEvent(id, modID, kind, ts) ==
  [id |-> id, modID |-> modID, eventType |-> kind, dateAdded |-> ts]

SrcEvent(modID, kind, ts) == ModioEvent(Len(srcEvents) + 1, modID, kind, ts)

\* A mod is published or edited at mod.io.
SrcPublish(m, v) ==
  /\ now < MaxTime
  /\ srcMods[m] = NoMod \/ srcMods[m].name # v.name \/ srcMods[m].tags # v.tags
  /\ now' = now + 1
  /\ srcMods' = [srcMods EXCEPT ![m] =
       [id |-> m, name |-> v.name, tags |-> v.tags, dateUpdated |-> now']]
  /\ srcEvents' = Append(srcEvents,
       SrcEvent(m, IF srcMods[m] = NoMod THEN "MOD_AVAILABLE" ELSE "MOD_EDITED", now'))
  /\ UNCHANGED << rdb, schedVars, faults >>

\* A mod is deleted at mod.io.
SrcDelete(m) ==
  /\ now < MaxTime
  /\ srcMods[m] # NoMod
  /\ now' = now + 1
  /\ srcMods' = [srcMods EXCEPT ![m] = NoMod]
  /\ srcEvents' = Append(srcEvents, SrcEvent(m, "MOD_DELETED", now'))
  /\ UNCHANGED << rdb, schedVars, faults >>

\* An event of a kind the scheduler does not handle; the mod is unchanged.
SrcOther(m) ==
  /\ now < MaxTime
  /\ srcMods[m] # NoMod
  /\ now' = now + 1
  /\ srcEvents' = Append(srcEvents, SrcEvent(m, OtherKind, now'))
  /\ UNCHANGED << srcMods, rdb, schedVars, faults >>

\* GET /mods?tags-in=<tag>&_sort=-date_updated: the mods carrying the tag, most
\* recently updated first (equal dates: by ID).
RECURSIVE ByRecency(_)
ByRecency(S) ==
  IF S = {} THEN << >>
  ELSE LET m == CHOOSE x \in S : \A y \in S :
                  \/ x.dateUpdated > y.dateUpdated
                  \/ x.dateUpdated = y.dateUpdated /\ x.id <= y.id
       IN  << m >> \o ByRecency(S \ {m})

SrcListing(mods, itemTypeTag) ==
  ByRecency({mods[m] : m \in {n \in ModIDs : mods[n] # NoMod /\ itemTypeTag \in Range(mods[n].tags)}})

\* GET /mods/events?date_added-min=<since+1>&_sort=date_added: every event when
\* since is 0 (the parameter is left out).
SrcEventsSince(events, sinceTimestamp) ==
  SelectSeq(events, LAMBDA e : sinceTimestamp <= 0 \/ e.dateAdded >= sinceTimestamp + 1)

\* s[from+1 .. from+limit], as _offset and _limit cut a result.
Page(s, offset, limit) ==
  SubSeq(s, offset + 1, IF offset + limit < Len(s) THEN offset + limit ELSE Len(s))

(* ------------------------------------------------------ the client --- *)

apiPageSize == 100
modEventsPageLimit == 100
maxEventsToProcessInOneCycle == 1000
mapPageCountSafeguard == 25
scriptPageCountSafeguard == 15

\* Client.FetchAllItems over one listing: page after page until a page comes
\* back short or maxPagesToFetch pages were read.
RECURSIVE FetchPages(_, _, _, _)
FetchPages(listing, page, maxPagesToFetch, allItems) ==
  IF page >= maxPagesToFetch THEN allItems
  ELSE LET data == Page(listing, page * apiPageSize, apiPageSize)
       IN  IF Len(data) < apiPageSize THEN allItems \o data
           ELSE FetchPages(listing, page + 1, maxPagesToFetch, allItems \o data)

\* The requests the loop of Client.FetchAllItems issues over one listing: one
\* per turn, until a page comes back short or maxPagesToFetch turns were made.
RECURSIVE FetchRequests(_, _, _)
FetchRequests(listing, page, maxPagesToFetch) ==
  IF page >= maxPagesToFetch THEN page
  ELSE LET data == Page(listing, page * apiPageSize, apiPageSize)
       IN  IF Len(data) < apiPageSize THEN page + 1
           ELSE FetchRequests(listing, page + 1, maxPagesToFetch)

FetchAllItems(mods, itemTypeTag, maxPagesToFetch) ==
  FetchPages(SrcListing(mods, itemTypeTag), 0, maxPagesToFetch, << >>)

\* Client.FetchModEvents: one page of the events after sinceTimestamp, and the
\* total the API reports for the query.
FetchModEvents(events, sinceTimestamp, offset, limit) ==
  LET all == SrcEventsSince(events, sinceTimestamp)
  IN  [Data |-> Page(all, offset, limit), ResultTotal |-> Len(all)]

\* Client.GetModDetails: the mod, or NoMod for a 404 (nil, nil).
GetModDetails(mods, modID) == mods[modID]

(* ---------------------------------------------------- the scheduler --- *)

Procs == {"startup", "ticker"}
TickKinds == {"events", "full"}

\* Where a goroutine is when it runs no cycle, and where it returns to.
Home(p) == IF p = "startup" THEN "boot" ELSE "select"
Ret(p) == IF p = "startup" THEN "exit" ELSE "select"

\* The positions inside a cycle, between TryLock and Unlock.
CyclePCs == {"fullMap", "fullScript", "fullTs", "evFetch", "evProc", "evExec", "evTs"}

\* The error processType returns: nil, or the failure of the listing fetch
\* ("fetch"), of the read of the type's ID set ("ids"), of pipe.Exec ("exec").
NoErr == "nil"

NoCycle ==
  [ since |-> 0, events |-> << >>, offset |-> 0, i |-> 0, pipe |-> << >>,
    latest |-> 0, errMaps |-> NoErr, errScripts |-> NoErr, maxTsMaps |-> 0,
    maxTsScripts |-> 0, fetchedMaps |-> << >>, fetchedScripts |-> << >> ]

\* sync.Mutex.TryLock: whether the lock is taken by the call.
\* A guard that never refuses (what the scheduler would be without updateMu).
TryLockAlways(mu) == TRUE

TryLock(mu) == ~mu

\* ctx.Done() of the context goroutine p runs its cycle under.
CtxDone(p) == deadline[p] \/ baseCtx

Max(a, b) == IF a > b THEN a ELSE b

RECURSIVE MaxDateUpdated(_)
MaxDateUpdated(mods) ==
  IF mods = << >> THEN 0
  ELSE Max(Head(mods).dateUpdated, MaxDateUpdated(Tail(mods)))

\* The catalogs mod.io can hold when the service starts: every mod absent or
\* published in one of its versions at second 1.
InitialCatalogs ==
  { [m \in ModIDs |->
       IF c[m] = NoMod THEN NoMod
       ELSE [id |-> m, name |-> c[m].name, tags |-> c[m].tags, dateUpdated |-> 1]] :
    c \in {d \in [ModIDs -> Versions \cup {NoMod}] :
            \A m \in ModIDs \ LiveModIDs : d[m] = NoMod} }

\* The event log of a catalog published at second 1: one MOD_AVAILABLE each.
InitialEvents(mods) ==
  LET present == SortedSeq({m \in ModIDs : mods[m] # NoMod})
  IN  [k \in 1..Len(present) |-> ModioEvent(k, present[k], "MOD_AVAILABLE", 1)]

\* The service starts (main, Scheduler.Start) with Redis empty, against whatever
\* mod.io holds at that time.
Init ==
  /\ srcMods \in InitialCatalogs
  /\ srcEvents = InitialEvents(srcMods)
  /\ now = 1
  /\ rdb = EmptyStore
  /\ updateMu = FALSE
  /\ pc = [p \in Procs |-> Home(p)]
  /\ loc = [p \in Procs |-> NoCycle]
  /\ tickC = [k \in TickKinds |-> 0]
  /\ stopChan = FALSE
  /\ baseCtx = FALSE
  /\ deadline = [p \in Procs |-> FALSE]
  /\ faults = 0

\* Goroutine p is about to call a cycle function of the given kind: the startup
\* goroutine calls runFullSynchronization once; the ticker goroutine, waiting in
\* its select, receives a tick of the kind's ticker (one that waited in the
\* channel, or one that fires now).
Invokes(p, kind) ==
  \/ p = "startup" /\ kind = "full" /\ pc[p] = "boot"
  \/ p = "ticker" /\ pc[p] = "select"

Received(p, kind) ==
  IF p = "ticker" THEN [tickC EXCEPT ![kind] = 0] ELSE tickC

\* A cycle function that returns without releasing updateMu.
ReturnLocked(p) ==
  /\ updateMu' = updateMu
  /\ pc' = [pc EXCEPT ![p] = Ret(p)]
  /\ loc' = [loc EXCEPT ![p] = NoCycle]
  /\ deadline' = [deadline EXCEPT ![p] = FALSE]

\* The cycle function returns: the deferred Unlock, and the goroutine goes on.
Return(p) ==
  /\ updateMu' = FALSE
  /\ pc' = [pc EXCEPT ![p] = Ret(p)]
  /\ loc' = [loc EXCEPT ![p] = NoCycle]
  /\ deadline' = [deadline EXCEPT ![p] = FALSE]

\* n failures are injected in this step.
Faults(n) == faults + n <= MaxFaults /\ faults' = faults + n
Fault == Faults(1)
NoFault == Faults(0)

\* A ticker fires while the ticker goroutine is busy in a cycle: the tick waits
\* in the channel (capacity 1); a tick that finds the channel full is dropped
\* by the runtime.
TickFire(k) ==
  /\ pc["ticker"] \in CyclePCs
  /\ tickC[k] = 0
  /\ tickC' = [tickC EXCEPT ![k] = 1]
  /\ UNCHANGED << srcVars, rdb, updateMu, pc, loc, stopChan, baseCtx, deadline, faults >>

\* Scheduler.Stop
Stop ==
  /\ ~stopChan
  /\ stopChan' = TRUE
  /\ UNCHANGED << srcVars, rdb, updateMu, pc, loc, tickC, baseCtx, deadline, faults >>

\* The ticker goroutine's select takes the stopChan case.
TickerStop ==
  /\ pc["ticker"] = "select"
  /\ stopChan
  /\ baseCtx' = TRUE
  /\ pc' = [pc EXCEPT !["ticker"] = "exit"]
  /\ UNCHANGED << srcVars, rdb, updateMu, loc, tickC, stopChan, deadline, faults >>

\* The deadline of the context of p's running cycle passes.
CtxDeadline(p) ==
  /\ pc[p] \in CyclePCs
  /\ ~deadline[p]
  /\ Fault
  /\ deadline' = [deadline EXCEPT ![p] = TRUE]
  /\ UNCHANGED << srcVars, rdb, updateMu, pc, loc, tickC, stopChan, baseCtx >>

(* ------------------------------------- runFullSynchronization --- *)

\* The removal loop of processType (part_001 252-277): the removal of every ID
\* of the type set that the fetched listing lacks.  failRead: the mod IDs whose
\* GetModByID returns an error.
RemovalPass(s, itemTypeTag, modsFromAPI, failRead) ==
  LET modType == GetModTypeFromTag(itemTypeTag)
      idsInRepo == GetAllModIDsByType(s, modType)
      apiModIDs == {Itoa(modsFromAPI[k].id) : k \in 1..Len(modsFromAPI)}
      removal(idInRepoStr) ==
        IF idInRepoStr \in apiModIDs THEN << >>
        ELSE LET modID == Atoi(idInRepoStr)
                 oldModData == GetModByID(s, modID)
             IN  IF modID \in failRead THEN << DelModKey(idInRepoStr) >>
                 ELSE IF oldModData # NoMod
                   THEN AddRemoveModCommandsFromPipeline(oldModData, itemTypeTag)
                   ELSE << DelModKey(idInRepoStr) >>
  IN  Flatten([k \in 1..Len(idsInRepo) |-> removal(idsInRepo[k])])

\* The pipeline processType queues for one type (part_001 252-294): the
\* removals, then the upsert of every listed mod.
ProcessTypePipe(s, itemTypeTag, modsFromAPI, failRead) ==
  LET upsert(mod) ==
        LET oldModData == IF mod.id \in failRead THEN NoMod ELSE GetModByID(s, mod.id)
        IN  (IF oldModData # NoMod
               THEN RemoveOrphanedTagIndexEntries(oldModData, mod, itemTypeTag)
               ELSE << >>)
            \o AddModCommandsToPipeline(mod, itemTypeTag)
  IN  RemovalPass(s, itemTypeTag, modsFromAPI, failRead)
      \o Flatten([k \in 1..Len(modsFromAPI) |-> upsert(modsFromAPI[k])])

\* The mod IDs processType reads from Redis for a listing.
ProcessTypeReads(s, itemTypeTag, modsFromAPI) ==
  {Atoi(k) : k \in s.typeSets[GetModTypeFromTag(itemTypeTag)]}
    \cup {modsFromAPI[k].id : k \in 1..Len(modsFromAPI)}

PhaseResult(err, maxTs, store, fetched, fault) ==
  [err |-> err, maxTs |-> maxTs, store |-> store, fetched |-> fetched, fault |-> fault]

\* A listing fetch that overwrites the type with an empty result.
ListingFailedAsEmpty(s, itemTypeTag, fault) ==
  PhaseResult("fetch", 0, ApplyPipe(s, ProcessTypePipe(s, itemTypeTag, << >>, {})),
              << >>, fault)

\* processType when FetchAllItems fails (part_001 239-242): the error is
\* returned before anything is read from Redis or queued.
ListingFailed(s, itemTypeTag, fault) == PhaseResult("fetch", 0, s, << >>, fault)

\* What one call of processType can come to (part_001 237-304) on store s with
\* the catalog mods: an error before anything is queued (the listing fetch or the
\* SMEMBERS failed; with the context done the fetch always fails), the pipeline
\* executed (with at most one record read failing), or the pipeline failing
\* after any number of its commands took effect.
ProcessTypeOutcomes(s, mods, itemTypeTag, pageSafeguard, ctxDone) ==
  LET modsFromAPI == FetchAllItems(mods, itemTypeTag, pageSafeguard)
      pipe == ProcessTypePipe(s, itemTypeTag, modsFromAPI, {})
      reads == ProcessTypeReads(s, itemTypeTag, modsFromAPI)
  IN  IF ctxDone THEN {ListingFailed(s, itemTypeTag, FALSE)}
      ELSE {ListingFailed(s, itemTypeTag, TRUE)}
        \cup {PhaseResult("ids", 0, s, << >>, TRUE)}
        \cup {PhaseResult(NoErr, MaxDateUpdated(modsFromAPI), ApplyPipe(s, pipe),
                          modsFromAPI, FALSE)}
        \cup {PhaseResult(NoErr, MaxDateUpdated(modsFromAPI),
                          ApplyPipe(s, ProcessTypePipe(s, itemTypeTag, modsFromAPI, {m})),
                          modsFromAPI, TRUE) : m \in reads}
        \cup {PhaseResult("exec", 0, t, << >>, TRUE) :
                t \in IF Len(pipe) > 0 THEN FailedExecStores(s, pipe) ELSE {}}

\* runFullSynchronization up to the TryLock (part_001 229-235).
FullStart(p) ==
  /\ Invokes(p, "full")
  /\ tickC' = Received(p, "full")
  /\ IF TryLock(updateMu)
       THEN /\ updateMu' = TRUE
            /\ pc' = [pc EXCEPT ![p] = "fullMap"]
       ELSE /\ pc' = [pc EXCEPT ![p] = Ret(p)]
            /\ UNCHANGED updateMu
  /\ UNCHANGED << srcVars, rdb, loc, stopChan, baseCtx, deadline, faults >>

\* Where runFullSynchronization goes on after the Map phase (part_001 311-320):
\* an error is logged, and the Script phase follows in either case.
AfterMapPhase(errMaps) == "fullScript"

\* processType(modio.MapTag, mapPageCountSafeguard) (part_001 311-318).
FullMaps(p) ==
  /\ pc[p] = "fullMap"
  /\ \E r \in ProcessTypeOutcomes(rdb, srcMods, MapTag, mapPageCountSafeguard, CtxDone(p)) :
       /\ IF r.fault THEN Fault ELSE NoFault
       /\ rdb' = r.store
       /\ loc' = [loc EXCEPT ![p].errMaps = r.err, ![p].maxTsMaps = r.maxTs,
                             ![p].fetchedMaps = r.fetched]
  /\ pc' = [pc EXCEPT ![p] = AfterMapPhase(loc'[p].errMaps)]
  /\ UNCHANGED << srcVars, updateMu, tickC, stopChan, baseCtx, deadline >>

\* processType(modio.ScriptModTag, scriptPageCountSafeguard) (part_001 320-327).
FullScripts(p) ==
  /\ pc[p] = "fullScript"
  /\ \E r \in ProcessTypeOutcomes(rdb, srcMods, ScriptModTag, scriptPageCountSafeguard, CtxDone(p)) :
       /\ IF r.fault THEN Fault ELSE NoFault
       /\ rdb' = r.store
       /\ loc' = [loc EXCEPT ![p].errScripts = r.err, ![p].maxTsScripts = r.maxTs,
                             ![p].fetchedScripts = r.fetched]
  /\ pc' = [pc EXCEPT ![p] = "fullTs"]
  /\ UNCHANGED << srcVars, updateMu, tickC, stopChan, baseCtx, deadline >>

\* The outcomes of the two watermark writes that end a cycle, as
\* << event watermark written, write timestamp written, failures injected >>:
\* with the context done both SETs fail.
TsOutcomes(ctxDone, wantEv) ==
  IF ctxDone THEN {<< FALSE, FALSE, 0 >>}
  ELSE {<< TRUE, TRUE, 0 >>, << TRUE, FALSE, 1 >>}
         \cup (IF wantEv THEN {<< FALSE, TRUE, 1 >>, << FALSE, FALSE, 2 >>} ELSE {})

\* SetSchedulerLastSyncEventTimestamp(value) when wanted, then
\* SetLastOverallWriteTimestamp(time.Now()), each taking effect unless it fails.
WriteWatermarks(s, wantEv, value, outcome, t) ==
  [s EXCEPT !.evTs = IF wantEv /\ outcome[1] THEN value ELSE @,
            !.writeTs = IF outcome[2] THEN t ELSE @]

\* A scheduler that writes the watermark when one of the phases succeeded.
EitherSucceeded(errMaps, errScripts) == errMaps = NoErr \/ errScripts = NoErr

\* `if errMaps == nil && errScripts == nil` (part_001 329).
BothSucceeded(errMaps, errScripts) == errMaps = NoErr /\ errScripts = NoErr

\* A scheduler that takes the last phase's maximum for the watermark.
LastPhaseMax(maxTsMaps, maxTsScripts) == maxTsScripts

\* overallMaxModUpdateTimestamp (part_001 306-327): the larger of the maxima the
\* two phases returned (a failed phase returns 0).
OverallMax(maxTsMaps, maxTsScripts) == Max(maxTsMaps, maxTsScripts)

\* The end of runFullSynchronization (part_001 329-346).
FullTs(p) ==
  /\ pc[p] = "fullTs"
  /\ LET overallMaxModUpdateTimestamp == OverallMax(loc[p].maxTsMaps, loc[p].maxTsScripts)
         wantEv == /\ BothSucceeded(loc[p].errMaps, loc[p].errScripts)
                   /\ overallMaxModUpdateTimestamp > 0
     IN  \E o \in TsOutcomes(CtxDone(p), wantEv) :
           /\ Faults(o[3])
           /\ rdb' = WriteWatermarks(rdb, wantEv, overallMaxModUpdateTimestamp, o, now)
  /\ Return(p)
  /\ UNCHANGED << srcVars, tickC, stopChan, baseCtx >>

(* ------------------------------ processRecentChangesViaEvents --- *)

\* case "MOD_DELETED", "MOD_UNAVAILABLE" (part_001 145-152).
DeletedCase(oldModData, modTypeTag, modID) ==
  IF oldModData # NoMod
    THEN AddRemoveModCommandsFromPipeline(oldModData, modTypeTag)
    ELSE << DelModKey(Itoa(modID)) >>

\* A scheduler that skips an update event whose mod mod.io no longer has.
NotFoundSkipped(oldModData, modTypeTag, modID) == << >>

\* `if newModData == nil` of the update case (part_001 159-167).
NotFoundCase(oldModData, modTypeTag, modID) ==
  IF oldModData # NoMod
    THEN AddRemoveModCommandsFromPipeline(oldModData, modTypeTag)
    ELSE << DelModKey(Itoa(modID)) >>

\* A scheduler that answers an event of a kind it does not know by deleting the
\* primary record of the event's mod.
UnhandledDeletes(oldModData, modTypeTag, modID) == << DelModKey(Itoa(modID)) >>

\* `default` of the switch on the event's kind (part_001 199-200): nothing is
\* queued.
IgnoredCase(oldModData, modTypeTag, modID) == << >>

\* What one event of the batch queues (part_001 117-205), and whether the
\* iteration reaches the update of latestEventTsProcessedInBatch (the two
\* `continue`s skip it).  f: "read" when GetModByID fails, "detail" when
\* GetModDetails fails, "none" otherwise.
EventStep(s, mods, event, f) ==
  LET oldModData == IF f = "read" THEN NoMod ELSE GetModByID(s, event.modID)
      oldTypeTag == IF oldModData # NoMod THEN FirstTypeTag(oldModData.tags) ELSE NoTypeTag
      removeOld == DeletedCase(oldModData, oldTypeTag, event.modID)
      removeGone == NotFoundCase(oldModData, oldTypeTag, event.modID)
      newModData == GetModDetails(mods, event.modID)
      newTypeTag == FirstTypeTag(newModData.tags)
      modTypeTag == IF newTypeTag # NoTypeTag THEN newTypeTag ELSE oldTypeTag
  IN  CASE event.eventType \in DeleteKinds -> [cmds |-> removeOld, counted |-> TRUE]
        [] event.eventType \in UpdateKinds ->
             IF f = "detail" THEN [cmds |-> << >>, counted |-> FALSE]
             ELSE IF newModData = NoMod THEN [cmds |-> removeGone, counted |-> FALSE]
             ELSE [cmds |->
                     (IF oldModData # NoMod
                        THEN RemoveOrphanedTagIndexEntries(oldModData, newModData, modTypeTag)
                        ELSE << >>)
                     \o AddModCommandsToPipeline(newModData, modTypeTag),
                   counted |-> TRUE]
        [] OTHER -> [cmds |-> IgnoredCase(oldModData, oldTypeTag, event.modID),
                     counted |-> TRUE]

\* processRecentChangesViaEvents up to the read of the watermark (part_001 39-55).
EvStart(p) ==
  /\ Invokes(p, "events")
  /\ tickC' = Received(p, "events")
  /\ IF TryLock(updateMu)
       THEN \/ /\ NoFault
               /\ updateMu' = TRUE
               /\ pc' = [pc EXCEPT ![p] = "evFetch"]
               /\ loc' = [loc EXCEPT ![p].since = rdb.evTs]
            \/ /\ Fault
               /\ pc' = [pc EXCEPT ![p] = Ret(p)]
               /\ UNCHANGED << updateMu, loc >>
       ELSE /\ NoFault
            /\ pc' = [pc EXCEPT ![p] = Ret(p)]
            /\ UNCHANGED << updateMu, loc >>
  /\ UNCHANGED << srcVars, rdb, stopChan, baseCtx, deadline >>

\* The pagination loop is left (part_001 94-104) in a step that injected n
\* failures: with no event the write timestamp is refreshed and the cycle ends;
\* otherwise the events are processed.
EvBreak(p, events, n) ==
  IF events = << >>
    THEN /\ \E o \in TsOutcomes(CtxDone(p), FALSE) :
              /\ Faults(n + o[3])
              /\ rdb' = WriteWatermarks(rdb, FALSE, 0, o, now)
         /\ Return(p)
    ELSE /\ Faults(n)
         /\ pc' = [pc EXCEPT ![p] = "evProc"]
         /\ loc' = [loc EXCEPT ![p].events = events, ![p].i = 1, ![p].pipe = << >>,
                               ![p].latest = loc[p].since]
         /\ UNCHANGED << rdb, updateMu, deadline >>

\* A pagination loop without the per-cycle maximum.
LastPageUncapped(dataLen, totalEventsFetchedThisCycle, resultTotal) ==
  \/ dataLen < modEventsPageLimit
  \/ totalEventsFetchedThisCycle >= resultTotal

\* The `if` that ends the pagination loop after a page was appended (part_001
\* 78-80).
LastPage(dataLen, totalEventsFetchedThisCycle, resultTotal) ==
  \/ dataLen < modEventsPageLimit
  \/ totalEventsFetchedThisCycle >= resultTotal
  \/ totalEventsFetchedThisCycle >= maxEventsToProcessInOneCycle

\* The pagination loop run to its end when no fetch fails and nothing cancels
\* the cycle (part_001 63-92): the events collected and the requests made.
RECURSIVE CollectEvents(_, _, _, _, _)
CollectEvents(events, lastSyncEventTs, currentOffset, allEventsToProcess, requests) ==
  LET resp == FetchModEvents(events, lastSyncEventTs, currentOffset, modEventsPageLimit)
      all == allEventsToProcess \o resp.Data
  IN  IF Len(resp.Data) = 0
        THEN [events |-> allEventsToProcess, requests |-> requests + 1]
      ELSE IF LastPage(Len(resp.Data), Len(all), resp.ResultTotal)
        THEN [events |-> all, requests |-> requests + 1]
      ELSE CollectEvents(events, lastSyncEventTs, currentOffset + Len(resp.Data),
                         all, requests + 1)

\* One turn of the pagination loop (part_001 63-92): the page fetch fails (always
\* when the context is done), or the page is taken and the loop is left or goes on.
EvFetch(p) ==
  /\ pc[p] = "evFetch"
  /\ LET resp == FetchModEvents(srcEvents, loc[p].since, loc[p].offset, modEventsPageLimit)
         events == loc[p].events \o resp.Data
     IN  \/ /\ CtxDone(p)
            /\ EvBreak(p, loc[p].events, 0)
         \/ /\ ~CtxDone(p)
            /\ EvBreak(p, loc[p].events, 1)
         \/ /\ ~CtxDone(p)
            /\ IF Len(resp.Data) = 0 THEN EvBreak(p, loc[p].events, 0)
               ELSE IF LastPage(Len(resp.Data), Len(events), resp.ResultTotal)
                 THEN EvBreak(p, events, 0)
               ELSE IF stopChan
                 THEN NoFault /\ Return(p) /\ UNCHANGED rdb
               ELSE /\ NoFault
                    /\ loc' = [loc EXCEPT ![p].events = events,
                                          ![p].offset = @ + Len(resp.Data)]
                    /\ UNCHANGED << rdb, updateMu, pc, deadline >>
  /\ UNCHANGED << srcVars, tickC, stopChan, baseCtx >>

\* An event loop that never looks at the context or at stopChan.
NeverCancelled(ctxDone, stop) == FALSE

\* The select that opens every iteration of the event loop (part_001 107-115):
\* the cycle returns when the context is done or stopChan is closed.
Cancelled(ctxDone, stop) == ctxDone \/ stop

\* One iteration of the loop over the fetched events (part_001 106-206).
EvProc(p) ==
  /\ pc[p] = "evProc"
  /\ LET event == loc[p].events[loc[p].i] IN
     IF Cancelled(CtxDone(p), stopChan)
       THEN NoFault /\ Return(p) /\ UNCHANGED rdb
       ELSE \E f \in {"none", "read"} \cup
                     (IF event.eventType \in UpdateKinds THEN {"detail"} ELSE {}) :
              LET r == EventStep(rdb, srcMods, event, f) IN
              /\ IF f = "none" THEN NoFault ELSE Fault
              /\ loc' = [loc EXCEPT
                   ![p].pipe = @ \o r.cmds,
                   ![p].latest = IF r.counted /\ event.dateAdded > @
                                   THEN event.dateAdded ELSE @,
                   ![p].i = @ + 1]
              /\ pc' = [pc EXCEPT ![p] =
                   IF loc[p].i = Len(loc[p].events) THEN "evExec" ELSE "evProc"]
              /\ UNCHANGED << rdb, updateMu, deadline >>
  /\ UNCHANGED << srcVars, tickC, stopChan, baseCtx >>

\* pipe.Exec when commands are queued (part_001 208-213): all of them take
\* effect, or the call fails after any number of them did (none when the
\* context is done) and the cycle ends.
EvExec(p) ==
  /\ pc[p] = "evExec"
  /\ LET pipe == loc[p].pipe IN
     \/ /\ ~CtxDone(p) \/ Len(pipe) = 0
        /\ NoFault
        /\ rdb' = ApplyPipe(rdb, pipe)
        /\ pc' = [pc EXCEPT ![p] = "evTs"]
        /\ UNCHANGED << updateMu, loc, deadline >>
     \/ /\ Len(pipe) > 0
        /\ IF CtxDone(p)
             THEN NoFault /\ UNCHANGED rdb
             ELSE /\ Fault
                  /\ rdb' \in FailedExecStores(rdb, pipe)
        /\ Return(p)
  /\ UNCHANGED << srcVars, tickC, stopChan, baseCtx >>

\* The end of processRecentChangesViaEvents (part_001 216-226).
EvTs(p) ==
  /\ pc[p] = "evTs"
  /\ LET wantEv == loc[p].latest > loc[p].since
     IN  \E o \in TsOutcomes(CtxDone(p), wantEv) :
           /\ Faults(o[3])
           /\ rdb' = WriteWatermarks(rdb, wantEv, loc[p].latest, o, now)
  /\ Return(p)
  /\ UNCHANGED << srcVars, tickC, stopChan, baseCtx >>

(* ------------------------------------------------- specification --- *)

Source ==
  \/ \E m \in LiveModIDs, v \in Versions : SrcPublish(m, v)
  \/ \E m \in LiveModIDs : SrcDelete(m)
  \/ \E m \in LiveModIDs : SrcOther(m)

Next ==
  \/ Source
  \/ \E k \in TickKinds : TickFire(k)
  \/ Stop
  \/ TickerStop
  \/ \E p \in Procs : CtxDeadline(p)
  \/ \E p \in Procs : FullStart(p)
  \/ \E p \in Procs : FullMaps(p)
  \/ \E p \in Procs : FullScripts(p)
  \/ \E p \in Procs : FullTs(p)
  \/ \E p \in Procs : EvStart(p)
  \/ \E p \in Procs : EvFetch(p)
  \/ \E p \in Procs : EvProc(p)
  \/ \E p \in Procs : EvExec(p)
  \/ \E p \in Procs : EvTs(p)

Spec == Init /\ [][Next]_vars

(* ------------------------------------------ a store that holds two mods --- *)

\* Redis holds A (id 1, a Map) and B (id 2, a Script) when the service starts;
\* mod.io by now has A alone, tagged Map and Winter.
ScenarioA == [id |-> 1, name |-> << "A" >>, tags |-> << MapTag >>, dateUpdated |-> 1]
ScenarioB == [id |-> 2, name |-> << "b" >>, tags |-> << ScriptModTag >>, dateUpdated |-> 1]
ScenarioANow ==
  [id |-> 1, name |-> << "A" >>, tags |-> << MapTag, WinterTag >>, dateUpdated |-> 1]

\* The store after A and B were saved under their types.
SeededStore ==
  ApplyPipe(EmptyStore, AddModCommandsToPipeline(ScenarioA, MapTag)
                          \o AddModCommandsToPipeline(ScenarioB, ScriptModTag))

ScenarioInit ==
  /\ srcMods = [m \in ModIDs |-> IF m = 1 THEN ScenarioANow ELSE NoMod]
  /\ srcEvents = << ModioEvent(1, 1, "MOD_AVAILABLE", 1),
                    ModioEvent(2, 2, "MOD_AVAILABLE", 1),
                    ModioEvent(3, 1, "MOD_EDITED", 1),
                    ModioEvent(4, 2, "MOD_DELETED", 1) >>
  /\ now = 1
  /\ rdb = SeededStore
  /\ updateMu = FALSE
  /\ pc = [p \in Procs |-> Home(p)]
  /\ loc = [p \in Procs |-> NoCycle]
  /\ tickC = [k \in TickKinds |-> 0]
  /\ stopChan = FALSE
  /\ baseCtx = FALSE
  /\ deadline = [p \in Procs |-> FALSE]
  /\ faults = 0

ScenarioSpec == ScenarioInit /\ [][Next]_vars

(* ------------------------------------- an event log of more than a page --- *)

\* mod.io's event log when the service starts holds one event more than a page
\* of the events endpoint: the publication of mod 1, then events of a kind the
\* scheduler ignores, all at second 1.
PagingEvents ==
  [k \in 1..(modEventsPageLimit + 1) |->
     ModioEvent(k, 1, IF k = 1 THEN "MOD_AVAILABLE" ELSE OtherKind, 1)]

PagingInit ==
  /\ srcMods = [m \in ModIDs |-> IF m = 1 THEN ScenarioA ELSE NoMod]
  /\ srcEvents = PagingEvents
  /\ now = 1
  /\ rdb = EmptyStore
  /\ updateMu = FALSE
  /\ pc = [p \in Procs |-> Home(p)]
  /\ loc = [p \in Procs |-> NoCycle]
  /\ tickC = [k \in TickKinds |-> 0]
  /\ stopChan = FALSE
  /\ baseCtx = FALSE
  /\ deadline = [p \in Procs |-> FALSE]
  /\ faults = 0

PagingSpec == PagingInit /\ [][Next]_vars


(* ------------------------- a log that opens with a mod long gone --- *)

\* mod.io's event log when the service starts opens with a page of edits of
\* mod 2, which was deleted since (the next event) and of which Redis holds
\* nothing; the publication of mod 1 follows.  All at second 1.
StaleEvents ==
  [k \in 1..(modEventsPageLimit + 2) |->
     ModioEvent(k, IF k <= modEventsPageLimit + 1 THEN 2 ELSE 1,
                IF k <= modEventsPageLimit THEN "MOD_EDITED"
                ELSE IF k = modEventsPageLimit + 1 THEN "MOD_DELETED"
                ELSE "MOD_AVAILABLE",
                1)]

StaleInit ==
  /\ srcMods = [m \in ModIDs |-> IF m = 1 THEN ScenarioA ELSE NoMod]
  /\ srcEvents = StaleEvents
  /\ now = 1
  /\ rdb = EmptyStore
  /\ updateMu = FALSE
  /\ pc = [p \in Procs |-> Home(p)]
  /\ loc = [p \in Procs |-> NoCycle]
  /\ tickC = [k \in TickKinds |-> 0]
  /\ stopChan = FALSE
  /\ baseCtx = FALSE
  /\ deadline = [p \in Procs |-> FALSE]
  /\ faults = 0

StaleSpec == StaleInit /\ [][Next]_vars


(* ------------------------------------------------------ properties --- *)

\* The type of an item as the specification classifies it: Map when the Map tag
\* is among its tags, otherwise Script when the Script tag is, otherwise Unknown.
UnknownType == << "?" >>
ItemType(tags) ==
  IF \E i \in 1..Len(tags) : EqualFold(tags[i], MapTag) THEN MapType
  ELSE IF \E i \in 1..Len(tags) : EqualFold(tags[i], ScriptModTag) THEN ScriptType
  ELSE UnknownType

\* The two types the service serves.
ServedTypes == {MapType, ScriptType}

\* AutocompleteHandler's strings.SplitN(res, ":", 2) of a title-index member.
SplitTitleMember(m) ==
  LET colon == CHOOSE i \in 1..Len(m) :
                 m[i] = ":" /\ \A j \in 1..(i - 1) : m[j] # ":"
  IN  [title |-> SubSeq(m, 1, colon - 1), id |-> SubSeq(m, colon + 1, Len(m))]

\* The IDs the indices of type t hold, index by index.
TitleIDs(s, t) == {SplitTitleMember(m).id : m \in s.titles[t]}
DateIDs(s, t) == {e.member : e \in s.dates[t]}
TagIDs(s, t) == UNION {s.tagSets[<< g, t >>] : g \in NormTags}
IndexedIDs(s, t) == s.typeSets[t] \cup TitleIDs(s, t) \cup DateIDs(s, t) \cup TagIDs(s, t)

\* The normalized tags of a record.
TagsOf(mod) == {normalizeStringForIndex(mod.tags[i]) : i \in 1..Len(mod.tags)}

\* The primary records and the indices of a store (everything but the watermarks).
Catalog(s) == [mods |-> s.mods, typeSets |-> s.typeSets, titles |-> s.titles,
               dates |-> s.dates, tagSets |-> s.tagSets]

\* runFullSynchronization's two phases on store s for the listings given, every
\* call succeeding.
FullReconciliation(s, listedMaps, listedScripts) ==
  LET afterMaps == ApplyPipe(s, ProcessTypePipe(s, MapTag, listedMaps, {}))
  IN  ApplyPipe(afterMaps, ProcessTypePipe(afterMaps, ScriptModTag, listedScripts, {}))

\* No cycle is executing.
Idle == \A p \in Procs : pc[p] \notin CyclePCs

\* Nothing has failed and nobody has asked the scheduler to stop: every cycle so
\* far ran to its end.
Undisturbed == faults = 0 /\ ~stopChan

\* Goroutine p is at the end of a full synchronization both of whose phases
\* fetched their listing and executed their batch.
FullSyncDone(p) ==
  pc[p] = "fullTs" /\ BothSucceeded(loc[p].errMaps, loc[p].errScripts)

\* The listings goroutine p's full synchronization fetched are those of the
\* catalog as it is now: mod.io did not change under the cycle.
SnapshotCurrent(p) ==
  /\ loc[p].fetchedMaps = FetchAllItems(srcMods, MapTag, mapPageCountSafeguard)
  /\ loc[p].fetchedScripts = FetchAllItems(srcMods, ScriptModTag, scriptPageCountSafeguard)

\* The step is goroutine p calling a cycle function: the startup goroutine
\* leaves "boot"; the ticker goroutine, in its select, enters a cycle or takes a
\* tick out of a channel.
CallsCycle(p) ==
  \/ p = "startup" /\ pc[p] = "boot" /\ pc'[p] # "boot"
  \/ /\ p = "ticker" /\ pc[p] = "select"
     /\ \/ pc'[p] \in CyclePCs
        \/ pc'[p] = "select" /\ \E k \in TickKinds : tickC'[k] < tickC[k]


\* C1: between the acquisition of the guard and its release at most one sync
\* cycle is executing, whichever of the startup goroutine and the two tickers
\* called it: never are two goroutines inside a cycle at once, and the goroutine
\* inside a cycle is the one holding updateMu.
OneCycleAtATime ==
  /\ Cardinality({p \in Procs : pc[p] \in CyclePCs}) <= 1
  /\ updateMu <=> (\E p \in Procs : pc[p] \in CyclePCs)

\* C1's case: the ticker goroutine is in the middle of an events cycle, holding
\* the guard, while the startup goroutine is about to call its full
\* synchronization.
OneCycleAtATimeWitness ==
  /\ pc["ticker"] = "evProc"
  /\ pc["startup"] = "boot"
  /\ updateMu

\* C2: a cycle function called while the guard is held returns in that same
\* step, and leaves the primary records, the four indices, both watermarks and
\* the guard as they were.
BusyCallAbandoned ==
  [][\A p \in Procs :
       (updateMu /\ CallsCycle(p)) =>
         /\ pc'[p] = Ret(p)
         /\ rdb' = rdb
         /\ updateMu'
         /\ loc' = loc]_vars

\* C2's case: the startup goroutine has come and gone while the ticker
\* goroutine's cycle, still running, held the guard: nothing failed, nobody
\* stopped the scheduler, and yet no full synchronization has written its
\* timestamp.
BusyCallAbandonedWitness ==
  /\ pc["startup"] = "exit"
  /\ pc["ticker"] \in {"evFetch", "evProc", "evExec", "evTs"}
  /\ rdb.writeTs = 0
  /\ Undisturbed
  /\ tickC = [k \in TickKinds |-> 0]



\* C3: whenever no cycle is executing, no ID is in both the Map and the Script
\* ID set, nor in the title indices, the timestamp indices or the tag sets of
\* both types, also when mod.io lists an item under both type tags or an item
\* changes type.  (Stated for the runs in which nothing failed.)
TypeIndicesDisjoint ==
  (Idle /\ Undisturbed) =>
    \A id \in IdStrs :
      /\ ~(id \in rdb.typeSets[MapType] /\ id \in rdb.typeSets[ScriptType])
      /\ ~(id \in TitleIDs(rdb, MapType) /\ id \in TitleIDs(rdb, ScriptType))
      /\ ~(id \in DateIDs(rdb, MapType) /\ id \in DateIDs(rdb, ScriptType))
      /\ ~(id \in TagIDs(rdb, MapType) /\ id \in TagIDs(rdb, ScriptType))

\* C4: after every completed cycle a stored item of type T is in the type-T ID
\* set, the type-T title index, the type-T timestamp index and exactly the
\* (tag, T) sets of its current tags, and in no other tag set; a stored item of
\* type Unknown is in none of the Map and Script indices.  (Stated for the runs
\* in which nothing failed.)
IndexedUnderOwnType ==
  (Idle /\ Undisturbed) =>
    \A id \in IdStrs :
      LET mod == rdb.mods[id]
          T == ItemType(mod.tags)
      IN  mod # NoMod =>
            IF T = UnknownType
              THEN \A t \in ServedTypes : id \notin IndexedIDs(rdb, t)
              ELSE /\ id \in rdb.typeSets[T]
                   /\ id \in TitleIDs(rdb, T)
                   /\ id \in DateIDs(rdb, T)
                   /\ \A k \in NormTags \X ModTypes :
                        id \in rdb.tagSets[k] <=> (k[2] = T /\ k[1] \in TagsOf(mod))

\* C5: when a cycle has executed its batches (a full synchronization both of
\* whose phases succeeded, an events cycle whose batch was executed), every ID
\* in an index of Map or Script has a primary record, and the index entry agrees
\* with the record's title, update timestamp and tags.  (Stated for the runs in
\* which nothing failed, and for the full synchronizations under which mod.io
\* did not change.)
IndicesAgreeWithRecords ==
  (Undisturbed /\ \E p \in Procs :
                    (FullSyncDone(p) /\ SnapshotCurrent(p)) \/ pc[p] = "evTs") =>
    \A t \in ServedTypes :
      /\ \A id \in IndexedIDs(rdb, t) : rdb.mods[id] # NoMod
      /\ \A m \in rdb.titles[t] :
           LET e == SplitTitleMember(m)
           IN  rdb.mods[e.id] # NoMod =>
                 e.title = normalizeStringForIndex(rdb.mods[e.id].name)
      /\ \A e \in rdb.dates[t] :
           rdb.mods[e.member] # NoMod => e.score = rdb.mods[e.member].dateUpdated
      /\ \A g \in NormTags : \A id \in rdb.tagSets[<< g, t >>] :
           rdb.mods[id] # NoMod => g \in TagsOf(rdb.mods[id])

\* C6: over any sequence of cycles, incremental and full, completed or aborted,
\* LastProcessedEventTimestamp never decreases.
WatermarkNeverDecreases == [][rdb'.evTs >= rdb.evTs]_vars

\* C7: a full reconciliation of the listings D that succeeds leaves the primary
\* records and every index as the same reconciliation of D leaves an empty
\* store, whatever cycles came before.  (Stated for the runs in which nothing
\* failed.)
FullSyncConverges ==
  \A p \in Procs :
    (Undisturbed /\ FullSyncDone(p)) =>
      Catalog(rdb) = Catalog(FullReconciliation(EmptyStore, loc[p].fetchedMaps,
                                                loc[p].fetchedScripts))

\* C8: a successful full reconciliation run a second time on the same listings
\* changes neither a primary record nor an index.  (Stated for the runs in
\* which nothing failed.)
FullSyncIdempotent ==
  \A p \in Procs :
    (Undisturbed /\ FullSyncDone(p)) =>
      Catalog(FullReconciliation(rdb, loc[p].fetchedMaps, loc[p].fetchedScripts))
        = Catalog(rdb)



\* The last event of mod m in the batch goroutine p's events cycle fetched is a
\* deletion.
LastEventDeletes(p, m) ==
  \E i \in 1..Len(loc[p].events) :
    /\ loc[p].events[i].modID = m
    /\ loc[p].events[i].eventType \in DeleteKinds
    /\ \A j \in (i + 1)..Len(loc[p].events) : loc[p].events[j].modID # m

\* Mod m is in neither listing goroutine p's full synchronization fetched.
NotListed(p, m) ==
  /\ \A k \in 1..Len(loc[p].fetchedMaps) : loc[p].fetchedMaps[k].id # m
  /\ \A k \in 1..Len(loc[p].fetchedScripts) : loc[p].fetchedScripts[k].id # m

\* C9: once an item is gone from mod.io and a cycle has dealt with it (an events
\* cycle executed a batch whose last event of the item is a deletion, or a full
\* synchronization succeeded whose listings lack it), the item is in no type ID
\* set, title index, timestamp index or tag set, whatever edits came before.
\* (Stated for the runs in which nothing failed.)
DeletedItemFullyRemoved ==
  \A p \in Procs : \A m \in ModIDs :
    ( /\ Undisturbed
      /\ srcMods[m] = NoMod
      /\ \/ pc[p] = "evTs" /\ LastEventDeletes(p, m)
         \/ FullSyncDone(p) /\ NotListed(p, m) ) =>
      \A t \in ServedTypes : Itoa(m) \notin IndexedIDs(rdb, t)

\* The prefixes searched for: each normalizes to a string that is not empty.
SearchPrefixes ==
  { << "a" >>, << "A" >>, << "a", "b" >>, << "b" >>, << " ", "b" >> }

\* C10: PrefixSearch(T, P, unlimited) returns exactly the stored items of type T
\* whose normalized title starts with normalize(P), each of them once.  (Stated
\* for the prefixes that do not normalize to the empty string, between cycles,
\* for the runs in which nothing failed.)
PrefixSearchExact ==
  (Idle /\ Undisturbed) =>
    \A T \in {MapTag, ScriptModTag} : \A P \in SearchPrefixes :
      LET res == SearchTitlesByPrefix(rdb, T, P, -1)
          ids == [i \in 1..Len(res) |-> SplitTitleMember(res[i]).id]
          expected == {id \in IdStrs :
                         /\ rdb.mods[id] # NoMod
                         /\ ItemType(rdb.mods[id].tags) = GetModTypeFromTag(T)
                         /\ HasPrefix(normalizeStringForIndex(rdb.mods[id].name),
                                      normalizeStringForIndex(P))}
      IN  /\ Range(ids) = expected
          /\ \A i, j \in 1..Len(ids) : ids[i] = ids[j] => i = j



\* C11: from the store holding A (id 1, tags [Map]) and B (id 2, tags
\* [Script]), a full synchronization whose listings are A tagged [Map, Winter]
\* and nothing else ends with B out of the primary records and of every index,
\* with A in the Map ID set, the Map title index, the Map timestamp index and
\* the (map, Map) and (winter, Map) tag sets, and with A in no Script index.
\* (rdb.writeTs = 0: no cycle has completed before this one, so it started from
\* the seeded store.)
ScenarioReconciled ==
  \A p \in Procs :
    ( /\ Undisturbed
      /\ FullSyncDone(p)
      /\ rdb.writeTs = 0
      /\ loc[p].fetchedMaps = << ScenarioANow >>
      /\ loc[p].fetchedScripts = << >> ) =>
      /\ rdb.mods[Itoa(2)] = NoMod
      /\ \A t \in ModTypes : Itoa(2) \notin IndexedIDs(rdb, t)
      /\ rdb.mods[Itoa(1)] = ScenarioANow
      /\ Itoa(1) \in rdb.typeSets[MapType]
      /\ TitleMember(ScenarioANow.name, Itoa(1)) \in rdb.titles[MapType]
      /\ [member |-> Itoa(1), score |-> ScenarioANow.dateUpdated] \in rdb.dates[MapType]
      /\ Itoa(1) \in rdb.tagSets[<< normalizeStringForIndex(MapTag), MapType >>]
      /\ Itoa(1) \in rdb.tagSets[<< normalizeStringForIndex(WinterTag), MapType >>]
      /\ Itoa(1) \notin IndexedIDs(rdb, ScriptType)

\* C11's case: the startup synchronization has run both phases on the seeded
\* store with these listings, and B's record is gone.
ScenarioReconciledWitness ==
  /\ Undisturbed
  /\ FullSyncDone("startup")
  /\ rdb.writeTs = 0
  /\ loc["startup"].fetchedMaps = << ScenarioANow >>
  /\ loc["startup"].fetchedScripts = << >>
  /\ SeededStore.mods[Itoa(2)] = ScenarioB
  /\ rdb.mods[Itoa(2)] = NoMod



\* The event goroutine p's event loop is at.
CurrentEvent(p) == loc[p].events[loc[p].i]

\* The step is one iteration of goroutine p's event loop.
EventDispatched(p) == pc[p] = "evProc" /\ loc'[p].i = loc[p].i + 1

\* The commands the step queued in goroutine p's pipeline.
Queued(p) == SubSeq(loc'[p].pipe, Len(loc[p].pipe) + 1, Len(loc'[p].pipe))

\* The type whose index a queued command addresses (the last part of its key).
KeyType(c) == c.key[Len(c.key)]

\* C12: an update event (Available, Edited, FileChanged) of an item whose tags
\* hold neither the Map nor the Script tag queues the SET of its record and adds
\* the item to no type ID set, title index, timestamp index or tag set, whether
\* or not a record of it existed before.  (Stated for the indices of Map and
\* Script, and for the iterations in which nothing fails.)
UnknownItemNotIndexed ==
  [][\A p \in Procs :
       LET new == GetModDetails(srcMods, CurrentEvent(p).modID)
       IN  ( /\ EventDispatched(p)
             /\ faults' = faults
             /\ CurrentEvent(p).eventType \in UpdateKinds
             /\ new # NoMod
             /\ ItemType(new.tags) = UnknownType ) =>
             /\ \E k \in 1..Len(Queued(p)) :
                  Queued(p)[k].op = "SET" /\ Queued(p)[k].val = new
             /\ \A k \in 1..Len(Queued(p)) :
                  Queued(p)[k].op \in {"SADD", "ZADD"} =>
                    KeyType(Queued(p)[k]) \notin ServedTypes]_vars

\* The type the scheduler's tag loop gives a tag list.
LoopType(tags) ==
  IF FirstTypeTag(tags) = NoTypeTag THEN UnknownType
  ELSE GetModTypeFromTag(FirstTypeTag(tags))

\* C13: the type computed for an item from its tags is Map whenever the Map tag
\* is among them, whatever the tag order and whether or not the Script tag is
\* there too, Script only when the Script tag is there and the Map tag is not,
\* and Unknown otherwise: for the stored record and for the fetched details of
\* every event the loop comes to.
MapTagWins ==
  \A p \in Procs :
    pc[p] = "evProc" =>
      LET old == GetModByID(rdb, CurrentEvent(p).modID)
          new == GetModDetails(srcMods, CurrentEvent(p).modID)
      IN  /\ old # NoMod => LoopType(old.tags) = ItemType(old.tags)
          /\ new # NoMod => LoopType(new.tags) = ItemType(new.tags)



\* The four indices of type t.
TypeIndices(s, t) ==
  [ids |-> s.typeSets[t], titles |-> s.titles[t], dates |-> s.dates[t],
   tags |-> [g \in NormTags |-> s.tagSets[<< g, t >>]]]

\* The step is goroutine p's Map phase, or its Script phase, returning.
MapPhaseReturns(p) == pc[p] = "fullMap" /\ pc'[p] # "fullMap"
ScriptPhaseReturns(p) == pc[p] = "fullScript" /\ pc'[p] # "fullScript"

\* The IDs a phase for the type of itemTypeTag deals with: those mod.io lists
\* under the tag and those in the type's ID set.
PhaseIDs(itemTypeTag) ==
  {Itoa(m) : m \in {n \in ModIDs : srcMods[n] # NoMod /\ itemTypeTag \in Range(srcMods[n].tags)}}
    \cup rdb.typeSets[GetModTypeFromTag(itemTypeTag)]

\* C14, as amended: when the listing fetch of a type fails in a full
\* synchronization (also by cancellation), that phase submits nothing, and the
\* type's indices end the cycle as they began it: the failing step leaves Redis
\* as it is, the Map phase never changes a Script index, and after a failed Map
\* fetch no later step of the cycle changes a Map index.  A primary record is
\* changed only by the phase of a type that lists the item or holds its ID.
FetchFailureKeepsIndices ==
  [][\A p \in Procs :
       /\ (MapPhaseReturns(p) /\ loc'[p].errMaps = "fetch") => rdb' = rdb
       /\ (ScriptPhaseReturns(p) /\ loc'[p].errScripts = "fetch") => rdb' = rdb
       /\ pc[p] = "fullMap" =>
            /\ TypeIndices(rdb', ScriptType) = TypeIndices(rdb, ScriptType)
            /\ \A id \in IdStrs :
                 rdb'.mods[id] # rdb.mods[id] => id \in PhaseIDs(MapTag)
       /\ (pc[p] \in {"fullScript", "fullTs"} /\ loc[p].errMaps = "fetch") =>
            /\ TypeIndices(rdb', MapType) = TypeIndices(rdb, MapType)
            /\ \A id \in IdStrs :
                 rdb'.mods[id] # rdb.mods[id] => id \in PhaseIDs(ScriptModTag)
       /\ (pc[p] = "fullTs" /\ loc[p].errScripts = "fetch") =>
            TypeIndices(rdb', ScriptType) = TypeIndices(rdb, ScriptType)]_vars

\* C14's case: the Map listing fetch failed in a cycle that began with a Map
\* item stored, and the Script phase of that cycle has saved a listing.
FetchFailureKeepsIndicesWitness ==
  \E p \in Procs :
    /\ pc[p] = "fullTs"
    /\ loc[p].errMaps = "fetch"
    /\ loc[p].errScripts = NoErr
    /\ loc[p].fetchedScripts # << >>
    /\ rdb.typeSets[MapType] # {}

\* C14, as stated: after the Map listing fetch has failed, the rest of the cycle
\* changes neither a Map index nor the primary record of an item in the Map ID
\* set.  (Redis at the failure is Redis as the cycle found it.)
FetchFailureKeepsRecords ==
  [][\A p \in Procs :
       (pc[p] \in {"fullScript", "fullTs"} /\ loc[p].errMaps = "fetch") =>
         /\ TypeIndices(rdb', MapType) = TypeIndices(rdb, MapType)
         /\ \A id \in rdb.typeSets[MapType] : rdb'.mods[id] = rdb.mods[id]]_vars



\* Store s holds mod as its record and under every index of type t.
SavedUnder(s, mod, t) ==
  /\ s.mods[Itoa(mod.id)] = mod
  /\ Itoa(mod.id) \in s.typeSets[t]
  /\ TitleMember(mod.name, Itoa(mod.id)) \in s.titles[t]
  /\ [member |-> Itoa(mod.id), score |-> mod.dateUpdated] \in s.dates[t]
  /\ \A g \in TagsOf(mod) : Itoa(mod.id) \in s.tagSets[<< g, t >>]

\* The listing is saved in store s under type t.
ListingSaved(s, listing, t) == \A k \in 1..Len(listing) : SavedUnder(s, listing[k], t)

\* What the batch of type t wrote for the listing is still in store s: each
\* listed item has a record (the listed one or a later version of it) and its
\* entries in every index of type t.
StaysApplied(s, listing, t) ==
  \A k \in 1..Len(listing) :
    LET mod == listing[k] IN
    /\ s.mods[Itoa(mod.id)] # NoMod
    /\ Itoa(mod.id) \in s.typeSets[t]
    /\ TitleMember(mod.name, Itoa(mod.id)) \in s.titles[t]
    /\ [member |-> Itoa(mod.id), score |-> mod.dateUpdated] \in s.dates[t]
    /\ \A g \in TagsOf(mod) : Itoa(mod.id) \in s.tagSets[<< g, t >>]

\* C15: in a full synchronization the Script phase runs whatever the Map phase
\* returned; after a failed Map phase (fetch, ID-set read or batch) a Script
\* phase that succeeds has submitted its batch; and a Script phase that fails
\* leaves the Map batch applied: every listed Map still has a record and its
\* Map index entries.
PhasesIsolated ==
  [][\A p \in Procs :
       /\ MapPhaseReturns(p) => pc'[p] = "fullScript"
       /\ (ScriptPhaseReturns(p) /\ loc[p].errMaps # NoErr /\ loc'[p].errScripts = NoErr) =>
            ListingSaved(rdb', loc'[p].fetchedScripts, ScriptType)
       /\ (ScriptPhaseReturns(p) /\ loc[p].errMaps = NoErr /\ loc'[p].errScripts # NoErr) =>
            StaysApplied(rdb', loc[p].fetchedMaps, MapType)]_vars

\* The step is goroutine p's events batch failing: the cycle returns from pipe.Exec.
EventBatchFails(p) == pc[p] = "evExec" /\ pc'[p] \notin {"evExec", "evTs"}

\* C16: a cycle whose batch submission fails (the events batch, or the batch of
\* either type in a full synchronization) does not write the event watermark,
\* in the failing step or in any later step of the cycle; and when the Script
\* batch fails, the Map batch submitted before it stays applied.
FailedBatchKeepsWatermark ==
  [][\A p \in Procs :
       /\ EventBatchFails(p) => rdb'.evTs = rdb.evTs
       /\ ( /\ pc[p] \in {"fullMap", "fullScript", "fullTs"}
            /\ "exec" \in {loc[p].errMaps, loc[p].errScripts,
                           loc'[p].errMaps, loc'[p].errScripts} ) =>
            rdb'.evTs = rdb.evTs
       /\ (ScriptPhaseReturns(p) /\ loc[p].errMaps = NoErr /\ loc'[p].errScripts = "exec") =>
            StaysApplied(rdb', loc[p].fetchedMaps, MapType)]_vars

\* C17: in an events cycle, the iteration in which the detail fetch or the
\* lookup of the stored record fails queues no upsert (no SET, SADD or ZADD) for
\* its event and goes on to the next event or to the submission of the batch.
FailedEventSkipped ==
  [][\A p \in Procs :
       (EventDispatched(p) /\ faults' > faults) =>
         /\ \A k \in 1..Len(Queued(p)) : Queued(p)[k].op \notin {"SET", "SADD", "ZADD"}
         /\ pc'[p] \in {"evProc", "evExec"}]_vars

\* C18: when mod.io answers not-found to the detail fetch of an Available,
\* Edited or FileChanged event, the iteration queues exactly what a Deleted
\* event of the item queues (the full removal of the stored record, or the
\* delete of the record key when there is none), no failure is involved, and
\* the loop goes on.
NotFoundIsDeletion ==
  [][\A p \in Procs :
       LET event == CurrentEvent(p)
           oldModData == GetModByID(rdb, event.modID)
       IN  ( /\ EventDispatched(p)
             /\ faults' = faults
             /\ event.eventType \in UpdateKinds
             /\ GetModDetails(srcMods, event.modID) = NoMod ) =>
             /\ Queued(p) = DeletedCase(oldModData, FirstTypeTag(oldModData.tags),
                                        event.modID)
             /\ pc'[p] \in {"evProc", "evExec"}]_vars

\* C18's case: the loop has gone past an update event of a mod that mod.io had
\* deleted before the batch was fetched (the deletion is in the batch), and the
\* pipeline begins with the delete of its record.
NotFoundIsDeletionWitness ==
  \E p \in Procs :
    /\ pc[p] \in {"evProc", "evExec"}
    /\ faults = 0
    /\ loc[p].i > 1
    /\ loc[p].events[1].eventType \in UpdateKinds
    /\ srcMods[loc[p].events[1].modID] = NoMod
    /\ \E j \in 2..Len(loc[p].events) :
         /\ loc[p].events[j].modID = loc[p].events[1].modID
         /\ loc[p].events[j].eventType \in DeleteKinds
    /\ Len(loc[p].pipe) > 0
    /\ loc[p].pipe[1].op = "DEL"

\* C19: a tick that arrived while a cycle was executing never makes a cycle run
\* later: the ticker goroutine never enters a cycle by receiving a tick that
\* waited in a ticker's channel.
TickNeverDeferred ==
  [][\A k \in TickKinds :
       ~ ( /\ pc["ticker"] = "select"
           /\ tickC[k] = 1
           /\ tickC'[k] = 0
           /\ pc'["ticker"] \in CyclePCs )]_vars

\* The step ends a cycle of goroutine p that had acquired the guard: the cycle
\* function returns, or (the ticker goroutine's events cycle) it returns at once
\* because the read of the event watermark failed.
CycleEnds(p) ==
  \/ pc[p] \in CyclePCs /\ pc'[p] \notin CyclePCs
  \/ /\ p = "ticker" /\ pc[p] = "select" /\ pc'[p] = "select"
     /\ ~updateMu /\ faults' > faults

\* The step is at a place where the write timestamp is SET, and the SET fails
\* (the context is done, or Redis fails).
WriteSetFails(p) ==
  /\ pc[p] \in {"fullTs", "evTs", "evFetch"}
  /\ CtxDone(p) \/ faults' > faults

\* C20: every cycle that acquired the guard writes LastWriteTimestamp before it
\* ends, on every exit path (no event fetched, events applied, batch submission
\* failed, watermark read failed, a type failed in a full synchronization):
\* unless the SET itself fails, the write timestamp is the current time when
\* the cycle ends.
LastWriteOnEveryExit ==
  [][\A p \in Procs :
       (CycleEnds(p) /\ ~WriteSetFails(p)) => rdb'.writeTs = now]_vars



\* The step is taken by goroutine p.
StepOf(p) == pc'[p] # pc[p] \/ loc'[p] # loc[p]

\* The page goroutine p's pagination loop is about to fetch is a full one with
\* more events behind it: the loop comes to its select before the next page.
MorePages(p) ==
  LET resp == FetchModEvents(srcEvents, loc[p].since, loc[p].offset, modEventsPageLimit)
      total == Len(loc[p].events) + Len(resp.Data)
  IN  /\ Len(resp.Data) = modEventsPageLimit
      /\ total < resp.ResultTotal
      /\ total < maxEventsToProcessInOneCycle

\* Goroutine p's events cycle is cancelled between two pages or between two
\* event applications: it is at one of the two selects with the context done or
\* stopChan closed (a done context makes the next page fetch fail before the
\* select between pages is reached).
CancelledMidPass(p) ==
  \/ pc[p] = "evProc" /\ (CtxDone(p) \/ stopChan)
  \/ pc[p] = "evFetch" /\ CtxDone(p)
  \/ pc[p] = "evFetch" /\ stopChan /\ MorePages(p)

\* C21: an events cycle cancelled (context done or stop signal) between event
\* pages or between event applications submits no batch and writes no
\* watermark: from the cycle's start to the submission of its batch no step
\* changes a record, an index or the event watermark, and the step a cancelled
\* cycle takes leaves Redis as it is and never leads to pipe.Exec or to the
\* watermark writes.
CancelledCycleWritesNothing ==
  [][\A p \in Procs :
       /\ pc[p] \in {"evFetch", "evProc"} =>
            /\ Catalog(rdb') = Catalog(rdb)
            /\ rdb'.evTs = rdb.evTs
       /\ (CancelledMidPass(p) /\ StepOf(p) /\ faults' = faults) =>
            /\ rdb' = rdb
            /\ pc'[p] \notin {"evExec", "evTs"}]_vars

\* C21's case: the stop signal has come while the cycle, which took its events
\* over two pages, is in the event loop with commands queued in its pipeline.
CancelledCycleWritesNothingWitness ==
  /\ pc["ticker"] = "evProc"
  /\ Len(loc["ticker"].events) > modEventsPageLimit
  /\ loc["ticker"].i > 1
  /\ Len(loc["ticker"].pipe) > 0
  /\ stopChan



\* The ID lists a caller passes to the bulk read: up to MaxIDs decimal IDs, with
\* repetitions, among them an ID no record can have.
MaxIDs == 3
RequestedIDs == IdStrs \cup {Itoa(MaxModID + 1)}
IDLists == UNION {[1..n -> RequestedIDs] : n \in 0..MaxIDs}

\* The records store s holds for the IDs of the list, in the order of the list.
RecordsOf(s, ids) ==
  LET held == SelectSeq(ids, LAMBDA k : k \in IdStrs /\ s.mods[k] # NoMod)
  IN  [i \in 1..Len(held) |-> s.mods[held[i]]]

\* C22: whatever Redis holds, GetModsByIDs returns for every ID list the records
\* that exist, in request order, and leaves out the IDs that have none, whether
\* some, all or none of the IDs are missing; for the empty list it returns the
\* empty list.
BulkReadTolerant ==
  \A ids \in IDLists :
    /\ GetModsByIDs(rdb, ids) = RecordsOf(rdb, ids)
    /\ ids = << >> => GetModsByIDs(rdb, ids) = << >>

\* C22's case: Redis holds the record of mod 1 and none of mod 2, and a read of
\* 2, 1, 2 returns the record of mod 1 alone; before that it held both, and
\* Redis never holds a record under the third ID.
BulkReadTolerantWitness ==
  /\ rdb.mods[Itoa(1)] # NoMod
  /\ rdb.mods[Itoa(2)] = NoMod
  /\ GetModsByIDs(rdb, << Itoa(2), Itoa(1), Itoa(2) >>) = << rdb.mods[Itoa(1)] >>
  /\ GetModsByIDs(rdb, << Itoa(2), Itoa(3) >>) = << >>



\* The details a mod can come with: absent (nil), or one of the versions, or
\* the scenario's item with its Winter tag.
NewDetails(modID) ==
  {NoMod} \cup {[id |-> modID, name |-> v.name, tags |-> v.tags, dateUpdated |-> MaxTime] :
                  v \in Versions}
          \cup {[ScenarioANow EXCEPT !.id = modID]}

\* C23: RemoveOrphanedTagIndexEntries(prior, new, T), applied to what Redis
\* holds, takes the item's ID out of the (tag, T) set of exactly the normalized
\* tags prior has and new lacks, and leaves every other tag set (the tags in
\* both, every other type), the primary records, the type ID sets, the title
\* indices, the timestamp indices and the watermarks as they were.  Stated where
\* the event loop is about to call it: prior is the stored record of the event's
\* mod, new ranges over every details and T over every type tag.
OrphanCleanupFrame ==
  \A p \in Procs :
    pc[p] = "evProc" =>
      LET prior == GetModByID(rdb, CurrentEvent(p).modID) IN
      prior # NoMod =>
        \A new \in NewDetails(prior.id), itemTypeTag \in {MapTag, ScriptModTag, NoTypeTag} :
          LET after == ApplyPipe(rdb, RemoveOrphanedTagIndexEntries(prior, new, itemTypeTag))
              lost == TagsOf(prior) \ (IF new = NoMod THEN {} ELSE TagsOf(new))
          IN  /\ \A g \in NormTags, t \in ModTypes :
                   after.tagSets[<< g, t >>] =
                     IF g \in lost /\ t = GetModTypeFromTag(itemTypeTag)
                       THEN rdb.tagSets[<< g, t >>] \ {Itoa(prior.id)}
                       ELSE rdb.tagSets[<< g, t >>]
              /\ [after EXCEPT !.tagSets = rdb.tagSets] = rdb

\* C23's case: the event loop is at an update event of mod 1, which is stored
\* with the tags Map and Winter and is in both tag sets of the Map type, while
\* mod.io now has it tagged Map alone: the cleanup takes it out of the Winter
\* set and leaves it in the Map set.
OrphanCleanupFrameWitness ==
  \E p \in Procs :
    /\ pc[p] = "evProc"
    /\ CurrentEvent(p).modID = 1
    /\ CurrentEvent(p).eventType \in UpdateKinds
    /\ rdb.mods[Itoa(1)] = ScenarioANow
    /\ srcMods[1] # NoMod
    /\ TagsOf(srcMods[1]) = {normalizeStringForIndex(MapTag)}
    /\ Itoa(1) \in rdb.tagSets[<< normalizeStringForIndex(WinterTag), MapType >>]
    /\ Itoa(1) \in rdb.tagSets[<< normalizeStringForIndex(MapTag), MapType >>]
    /\ LET after == ApplyPipe(rdb, RemoveOrphanedTagIndexEntries(rdb.mods[Itoa(1)], srcMods[1], MapTag))
       IN  /\ Itoa(1) \notin after.tagSets[<< normalizeStringForIndex(WinterTag), MapType >>]
           /\ Itoa(1) \in after.tagSets[<< normalizeStringForIndex(MapTag), MapType >>]


\* The latest date_added among the events.
RECURSIVE MaxDateAdded(_)
MaxDateAdded(events) ==
  IF events = << >> THEN 0 ELSE Max(Head(events).dateAdded, MaxDateAdded(Tail(events)))

\* C24: when an events cycle has submitted its batch and writes its watermarks
\* with nothing failing, the event watermark becomes the maximum of its previous
\* value and the date_added of every event the cycle fetched, the events whose
\* detail fetch failed or found nothing included.
WatermarkCoversFetchedEvents ==
  [][\A p \in Procs :
       ( /\ pc[p] = "evTs"
         /\ pc'[p] # "evTs"
         /\ Len(loc[p].pipe) > 0
         /\ ~CtxDone(p)
         /\ faults' = faults ) =>
         rdb'.evTs = Max(rdb.evTs, MaxDateAdded(loc[p].events))]_vars



\* The IDs of a listing, as decimal strings.
ListedIDs(listing) == {Itoa(listing[k].id) : k \in 1..Len(listing)}

\* After a phase for type t that fetched the listing, store s2 (s1 before the
\* phase) holds exactly the listed IDs in the type's ID set, and no ID of the
\* old set that the listing lacks is left in an index of the type.
IDSetMadeExact(s1, s2, listing, t) ==
  /\ s2.typeSets[t] = ListedIDs(listing)
  /\ \A id \in s1.typeSets[t] \ ListedIDs(listing) : id \notin IndexedIDs(s2, t)

\* C25: when the phase of a full synchronization for a type succeeds (nothing
\* failing in it), the type's ID set is exactly the set of listed IDs, and every
\* ID that was in the set and is not listed is gone from the set and from the
\* type's title, timestamp and tag indices, with or without a primary record.
PhaseMakesIDSetExact ==
  [][\A p \in Procs :
       /\ (MapPhaseReturns(p) /\ loc'[p].errMaps = NoErr /\ faults' = faults) =>
            IDSetMadeExact(rdb, rdb', loc'[p].fetchedMaps, MapType)
       /\ (ScriptPhaseReturns(p) /\ loc'[p].errScripts = NoErr /\ faults' = faults) =>
            IDSetMadeExact(rdb, rdb', loc'[p].fetchedScripts, ScriptType)]_vars



\* C26: at the end of a full synchronization both of whose phases succeeded
\* (mod.io not having changed under it), every item of the Map listing and every
\* item of the Script listing is readable by ID with the fetched content and is
\* in its listing type's ID set, title index, timestamp index and the tag sets
\* of its tags, whatever Redis held before the cycle.
FullSyncSavesListings ==
  \A p \in Procs :
    (FullSyncDone(p) /\ SnapshotCurrent(p)) =>
      /\ ListingSaved(rdb, loc[p].fetchedMaps, MapType)
      /\ ListingSaved(rdb, loc[p].fetchedScripts, ScriptType)



\* The step is the end of goroutine p's full synchronization.
FullSyncEnds(p) == pc[p] = "fullTs" /\ pc'[p] # "fullTs"

\* C27: the value a full synchronization writes to the event watermark is the
\* maximum date_updated over the listings its phases upserted: when both phases
\* succeeded and the writes do not fail, the watermark becomes that maximum (it
\* is left alone when no item was listed); when a phase failed (fetch, ID-set
\* read or batch), the cycle leaves the watermark as it was, so that no maximum
\* of a failed type is ever written; and no step of the phases writes it.
FullSyncWatermarkValue ==
  [][\A p \in Procs :
       LET upserted == Max(MaxDateUpdated(loc[p].fetchedMaps),
                           MaxDateUpdated(loc[p].fetchedScripts))
           failed == loc[p].errMaps # NoErr \/ loc[p].errScripts # NoErr
       IN  /\ (FullSyncEnds(p) /\ ~failed /\ ~CtxDone(p) /\ faults' = faults) =>
                rdb'.evTs = IF upserted > 0 THEN upserted ELSE rdb.evTs
           /\ (FullSyncEnds(p) /\ ~failed) => rdb'.evTs \in {rdb.evTs, upserted}
           /\ (FullSyncEnds(p) /\ failed) => rdb'.evTs = rdb.evTs
           /\ pc[p] \in {"fullMap", "fullScript"} => rdb'.evTs = rdb.evTs]_vars

\* C27's case: both phases of a full synchronization have succeeded, the Map
\* listing's maximum is 1, the Script listing is empty, and the cycle is about
\* to write 1 over a watermark that differs from it.
FullSyncWatermarkValueWitness ==
  \E p \in Procs :
    /\ pc[p] = "fullTs"
    /\ ~CtxDone(p)
    /\ loc[p].errMaps = NoErr
    /\ loc[p].errScripts = NoErr
    /\ MaxDateUpdated(loc[p].fetchedMaps) = 1
    /\ loc[p].fetchedScripts = << >>
    /\ rdb.evTs # 1



\* C28: when the one event of a batch is an update event (Available, Edited,
\* FileChanged) of an item that has a stored record, then after the batch is
\* applied (nothing having failed) the item is in no index of a type other than
\* the type of its new tags, and in no tag set of a tag it does not have: what
\* it held under its old type and under the tags it lost is removed.
UpdateMovesMemberships ==
  [][\A p \in Procs :
       ( /\ pc[p] = "evExec"
         /\ pc'[p] = "evTs"
         /\ faults' = 0
         /\ Len(loc[p].events) = 1
         /\ loc[p].events[1].eventType \in UpdateKinds
         /\ rdb.mods[Itoa(loc[p].events[1].modID)] # NoMod
         /\ rdb'.mods[Itoa(loc[p].events[1].modID)] # NoMod ) =>
         LET id == Itoa(loc[p].events[1].modID)
             new == rdb'.mods[id]
         IN  \A t \in ServedTypes :
               /\ t # ItemType(new.tags) => id \notin IndexedIDs(rdb', t)
               /\ \A g \in NormTags : id \in rdb'.tagSets[<< g, t >>] => g \in TagsOf(new)]_vars

\* The indices of a store: every key but the primary records and the watermarks.
Indices(s) == << s.typeSets, s.titles, s.dates, s.tagSets >>

\* C29: for a Deleted/Unavailable event, if a stored record of the item is
\* found, the primary record and the item's membership in the ID set, title
\* index, timestamp index and tag sets of its prior type are removed; if none is
\* found, the only mutation queued is the deletion of the primary record key and
\* every index is left unchanged.  (Stated for a batch of one such event in
\* which no call fails.)
DeletionRemovesMemberships ==
  [][\A p \in Procs :
       ( /\ pc[p] = "evExec" /\ pc'[p] = "evTs" /\ faults' = 0
         /\ Len(loc[p].events) = 1
         /\ loc[p].events[1].eventType \in DeleteKinds ) =>
         LET id == Itoa(loc[p].events[1].modID)
             old == rdb.mods[id]
         IN  IF old # NoMod
               THEN /\ rdb'.mods[id] = NoMod
                    /\ ItemType(old.tags) \in ServedTypes =>
                         id \notin IndexedIDs(rdb', ItemType(old.tags))
               ELSE /\ loc[p].pipe = << DelModKey(id) >>
                    /\ Indices(rdb') = Indices(rdb)]_vars

\* The kinds of event the scheduler handles.
HandledKinds == DeleteKinds \cup UpdateKinds

\* C30: an event whose kind is none of Available, Edited, FileChanged, Deleted,
\* Unavailable queues no store mutation and triggers no detail fetch (whatever
\* mod.io would answer, the iteration reaches the update of the batch's latest
\* event timestamp), and a batch of such events leaves the primary records and
\* the indices unchanged when it is applied.
OtherKindIgnored ==
  [][\A p \in Procs :
       /\ ( EventDispatched(p) /\ CurrentEvent(p).eventType \notin HandledKinds ) =>
            /\ Queued(p) = << >>
            /\ rdb' = rdb
            /\ loc'[p].latest = Max(loc[p].latest, CurrentEvent(p).dateAdded)
       /\ ( /\ pc[p] = "evExec" /\ pc'[p] # "evExec"
            /\ \A k \in 1..Len(loc[p].events) :
                 loc[p].events[k].eventType \notin HandledKinds ) =>
            /\ loc[p].pipe = << >>
            /\ rdb'.mods = rdb.mods
            /\ Indices(rdb') = Indices(rdb)]_vars

\* An events cycle has gone past an event of another kind for a mod that has a
\* stored record, and nothing is queued.
OtherKindIgnoredWitness ==
  \E p \in Procs :
    /\ pc[p] = "evExec"
    /\ loc[p].pipe = << >>
    /\ \E k \in 1..Len(loc[p].events) :
         /\ loc[p].events[k].eventType = OtherKind
         /\ rdb.mods[Itoa(loc[p].events[k].modID)] # NoMod

\* The longest event log the pagination loop is run over, in pages.
MaxLogPages == 11

\* An event log of n events newer than the watermark.
EventLog(n) == [k \in 1..n |-> ModioEvent(k, 1, OtherKind, 1)]
LogLengths == {k * modEventsPageLimit + d : k \in 0..MaxLogPages, d \in {0, 1}}

Min(a, b) == IF a < b THEN a ELSE b

\* Run over a log of any of these lengths, the pagination loop ends, with the
\* first events of the log up to the per-cycle maximum, after at most one
\* request per page of the maximum.
LoopCollectsAtMostMaximum ==
  \A n \in LogLengths :
    LET r == CollectEvents(EventLog(n), 0, 0, << >>, 0)
    IN  /\ Len(r.events) <= maxEventsToProcessInOneCycle
        /\ r.events = SubSeq(EventLog(n), 1, Min(n, maxEventsToProcessInOneCycle))
        /\ r.requests <= maxEventsToProcessInOneCycle \div modEventsPageLimit

\* C31: the event pagination loop of an events cycle always terminates and
\* collects at most maxEventsToProcessInOneCycle (1000) events: a turn of the
\* loop that is followed by another one fetched a full page without error, moved
\* the offset on by that page, and left the events fetched below the total the
\* source reported and below the maximum; every other turn leaves the loop.
PaginationTerminates ==
  [][/\ LoopCollectsAtMostMaximum
     /\ \A p \in Procs :
          /\ Len(loc'[p].events) <= maxEventsToProcessInOneCycle
          /\ (pc[p] = "evFetch" /\ pc'[p] = "evFetch" /\ StepOf(p)) =>
               LET resp == FetchModEvents(srcEvents, loc[p].since, loc[p].offset,
                                          modEventsPageLimit)
               IN  /\ faults' = faults
                   /\ Len(resp.Data) = modEventsPageLimit
                   /\ loc'[p].events = loc[p].events \o resp.Data
                   /\ loc'[p].offset = loc[p].offset + modEventsPageLimit
                   /\ Len(loc'[p].events) < resp.ResultTotal
                   /\ Len(loc'[p].events) < maxEventsToProcessInOneCycle
                   /\ maxEventsToProcessInOneCycle - Len(loc'[p].events)
                        < maxEventsToProcessInOneCycle - Len(loc[p].events)]_vars

\* An events cycle has left the pagination loop with the events of two pages.
PaginationTerminatesWitness ==
  \E p \in Procs :
    /\ pc[p] = "evProc"
    /\ loc[p].offset = modEventsPageLimit
    /\ Len(loc[p].events) = modEventsPageLimit + 1

\* The longest listing the listing fetch is run over, in pages.
MaxListingPages == 26

\* A listing of n Map items, item k with ID k.
ListingOf(n) ==
  [k \in 1..n |-> [id |-> k, name |-> << "A" >>, tags |-> << MapTag >>, dateUpdated |-> 1]]
ListingLengths == {k * apiPageSize + d : k \in 0..MaxListingPages, d \in {0, 1}}

\* The page safeguard runFullSynchronization passes for the phase goroutine p
\* is in (part_001 311, 320).
PhaseSafeguard(p) ==
  IF pc[p] = "fullMap" THEN mapPageCountSafeguard ELSE scriptPageCountSafeguard

\* C32: the listing fetch requests a further page only if the last page was
\* full, the number of items fetched so far is below the total the source
\* reports, and fewer than the safeguard's pages were requested; it never
\* issues more requests than the safeguard.  (Stated for the fetch a phase of a
\* full synchronization is about to make, over a listing of any of the lengths.)
FurtherPageOnlyIfMore ==
  \A p \in Procs :
    pc[p] \in {"fullMap", "fullScript"} =>
      \A n \in ListingLengths :
        LET requests == FetchRequests(ListingOf(n), 0, PhaseSafeguard(p))
        IN  /\ requests <= PhaseSafeguard(p)
            /\ \A k \in 1..(requests - 1) :
                 /\ Len(Page(ListingOf(n), (k - 1) * apiPageSize, apiPageSize)) = apiPageSize
                 /\ k * apiPageSize < n
                 /\ k < PhaseSafeguard(p)

\* With the records s, the catalog mods and the context as it is, the two
\* phases of a full synchronization can run without any failure and the Script
\* phase changes a record or an index.
ScriptPhaseSubmits(s, mods, ctxDone) ==
  \E m \in ProcessTypeOutcomes(s, mods, MapTag, mapPageCountSafeguard, ctxDone) :
    /\ ~m.fault
    /\ \E r \in ProcessTypeOutcomes(m.store, mods, ScriptModTag,
                                    scriptPageCountSafeguard, ctxDone) :
         ~r.fault /\ Catalog(r.store) # Catalog(m.store)

\* Cancellation is signalled in this step: Stop closes stopChan, or the context
\* of goroutine p's cycle becomes done.
CancellationSignalled(p) ==
  \/ ~stopChan /\ stopChan'
  \/ ~CtxDone(p) /\ CtxDone(p)'

\* C33: when cancellation is signalled (Stop called, or the cycle's context
\* cancelled) while a full synchronization is in its Map phase, the cycle
\* observes it before the Script phase and the Script phase submits no
\* mutation, for the startup goroutine's synchronization and for one the ticker
\* started: from the state the signal leaves, the phases as they run on cannot
\* bring the Script phase to change a record or an index.
ScriptPhaseObservesCancellation ==
  [][\A p \in Procs :
       ( /\ pc[p] = "fullMap" /\ pc'[p] = "fullMap"
         /\ CancellationSignalled(p) ) =>
         ~ScriptPhaseSubmits(rdb', srcMods', CtxDone(p)')]_vars

\* A Map listing that is one item longer than the safeguard lets the fetch
\* read: mapPageCountSafeguard full pages of more recently updated items, then
\* the item last.
ListingBeyondSafeguard(last) ==
  [k \in 1..(mapPageCountSafeguard * apiPageSize + 1) |->
     IF k <= mapPageCountSafeguard * apiPageSize
       THEN [id |-> 1000 + k, name |-> << "A" >>, tags |-> << MapTag >>,
             dateUpdated |-> last.dateUpdated + 1]
       ELSE last]

\* C34: a full synchronization removes an item from a type's indices only if the
\* item is absent from the source's complete listing for the type; when the
\* source has more pages than the safeguard, an indexed item on a page beyond
\* the safeguard is not removed.  (Stated for the Map phase a synchronization
\* is about to run, over the listing that ends with a stored Map item.)
OnlyUnlistedRemoved ==
  \A p \in Procs :
    pc[p] = "fullMap" =>
      \A id \in rdb.typeSets[MapType] :
        LET old == rdb.mods[id]
            listing == ListingBeyondSafeguard(old)
            modsFromAPI == FetchPages(listing, 0, mapPageCountSafeguard, << >>)
            after == ApplyPipe(rdb, RemovalPass(rdb, MapTag, modsFromAPI, {}))
        IN  (old # NoMod /\ MapTag \in Range(old.tags)) =>
              \A gone \in IndexedIDs(rdb, MapType) \ IndexedIDs(after, MapType) :
                gone \notin ListedIDs(listing)

\* The indices of store s hold for ID id exactly what its record tells: nothing
\* when there is no record, and otherwise the entries of the record under the
\* type the scheduler's tag loop gives it, and nothing under another type.
CleanlyStored(s, id) ==
  LET m == s.mods[id]
      t0 == GetModTypeFromTag(FirstTypeTag(m.tags))
  IN  IF m = NoMod THEN \A t \in ModTypes : id \notin IndexedIDs(s, t)
      ELSE /\ \A t \in ModTypes \ {t0} : id \notin IndexedIDs(s, t)
           /\ {x \in s.titles[t0] : SplitTitleMember(x).id = id} = {TitleMember(m.name, id)}
           /\ {g \in NormTags : id \in s.tagSets[<< g, t0 >>]} = TagsOf(m)

\* The batch goroutine p is about to submit holds two events for mod modID.
TwoEventsFor(p, modID) ==
  \E j, k \in 1..Len(loc[p].events) :
    j < k /\ loc[p].events[j].modID = modID /\ loc[p].events[k].modID = modID

\* C35: when two events of one batch target the same item, the prior record
\* consulted for the second reflects what the first queued, so after the batch
\* is applied no index membership is left over from the first event: when the
\* item's entries were those of its record before the cycle and the batch leaves
\* the item without a record (Edited then Deleted, say), no index holds the item
\* any more.  (Stated for cycles in which no call fails.)
SecondEventSeesFirst ==
  [][\A p \in Procs, modID \in ModIDs :
       ( /\ pc[p] = "evExec" /\ pc'[p] = "evTs" /\ faults' = 0
         /\ TwoEventsFor(p, modID)
         /\ CleanlyStored(rdb, Itoa(modID))
         /\ rdb'.mods[Itoa(modID)] = NoMod ) =>
         \A t \in ModTypes : Itoa(modID) \notin IndexedIDs(rdb', t)]_vars

\* The events of the source's log that a query of a cycle that read the
\* watermark since returns, over all its pages.
NewerThan(since) == Range(SrcEventsSince(srcEvents, since))

\* C36: every event the source reports is eventually fetched by some events
\* cycle, the events included that carry the timestamp of the last event of a
\* cycle cut off by the per-cycle maximum or by a page-fetch error: as the next
\* cycle asks only for events strictly newer than the watermark, a cycle that
\* writes the event watermark has fetched every event of the log that is newer
\* than the watermark it started from and not newer than the one it writes.
NoEventBehindWatermark ==
  [][\A p \in Procs :
       ( /\ pc[p] = "evTs" /\ pc'[p] # "evTs"
         /\ rdb'.evTs # rdb.evTs ) =>
         \A e \in NewerThan(loc[p].since) :
           e.dateAdded <= rdb'.evTs => e \in Range(loc[p].events)]_vars

\* The members of type t's title index in store s that belong to ID id.
TitleEntries(s, t, id) == {x \in s.titles[t] : SplitTitleMember(x).id = id}

\* C37: after any sequence of cycles, each type's title index holds at most one
\* entry per item ID, and that entry carries the current normalized title of the
\* item: a renaming, by an event or by a full synchronization, leaves no entry
\* with the old title.  (Stated for the index of the type the stored record
\* has, in the states in which no cycle is running and nothing has failed.)
OneTitlePerItem ==
  (faults = 0 /\ \A p \in Procs : pc[p] \notin CyclePCs) =>
    \A id \in IdStrs :
      rdb.mods[id] # NoMod =>
        LET t == GetModTypeFromTag(FirstTypeTag(rdb.mods[id].tags))
        IN  /\ Cardinality(TitleEntries(rdb, t, id)) <= 1
            /\ TitleEntries(rdb, t, id) \subseteq {TitleMember(rdb.mods[id].name, id)}

\* Goroutine p leaves its cycle in this step.
CycleExits(p) == pc[p] \in CyclePCs /\ pc'[p] \notin CyclePCs

\* Goroutine p enters a cycle in this step.
CycleEnters(p) == pc[p] \notin CyclePCs /\ pc'[p] \in CyclePCs

\* C38: the guard is held exactly while a cycle is executing: a cycle that
\* acquired it releases it on every exit path (normal end, watermark read
\* error, fetch error, batch submission error, cancellation), so a cycle called
\* when no cycle is executing finds the guard free, acquires it and runs.
GuardReleasedOnExit ==
  [][/\ \A p \in Procs :
          /\ CycleExits(p) => updateMu /\ ~updateMu'
          /\ CycleEnters(p) => ~updateMu /\ updateMu'
          /\ (CallsCycle(p) /\ \A q \in Procs : pc[q] \notin CyclePCs) =>
               /\ TryLock(updateMu)
               /\ pc'[p] \in CyclePCs \/ (faults' > faults /\ ~updateMu')
     /\ updateMu' <=> (\E p \in Procs : pc'[p] \in CyclePCs)]_vars

\* A cycle has ended on an error path (it stored a record, and the write of
\* LastWriteTimestamp that ends it failed) and, the guard released, the ticker
\* goroutine has acquired it for a cycle of its own, which has written nothing
\* yet.
GuardReleasedOnExitWitness ==
  /\ pc["ticker"] \in {"evFetch", "fullMap"}
  /\ updateMu
  /\ faults > 0
  /\ rdb.writeTs = 0
  /\ \E id \in IdStrs : rdb.mods[id] # NoMod


\* The page the pagination loop of p asks for next.
NextPage(p) ==
  FetchModEvents(srcEvents, loc[p].since, loc[p].offset, modEventsPageLimit).Data

\* The step of p is a turn of the pagination loop whose fetch fails though
\* mod.io has a page to give: the failure is an error of the call or the
\* context being done.
PageFetchFails(p) ==
  /\ pc[p] = "evFetch"
  /\ StepOf(p)
  /\ Len(NextPage(p)) > 0
  /\ pc'[p] # "evFetch"
  /\ loc'[p].events = loc[p].events
  /\ CtxDone(p) \/ faults' > faults

\* The step of p is the watermark write, made without failure, of a cycle whose
\* pagination a fetch failure ended after whole pages: the cycle holds fewer
\* events than the log the service started with had for it, and fewer than the
\* per-cycle maximum.
EndsCutCycle(p) ==
  /\ pc[p] = "evTs"
  /\ StepOf(p)
  /\ ~CtxDone(p)
  /\ faults' = faults
  /\ Len(loc[p].events) % modEventsPageLimit = 0
  /\ Len(loc[p].events) < maxEventsToProcessInOneCycle
  /\ Len(loc[p].events) < Len(SrcEventsSince(StaleEvents, loc[p].since))

\* C39: an events cycle whose first page fetch fails is handled as a cycle with
\* no event: it submits no batch, leaves LastProcessedEventTimestamp as it was
\* and (the context alive) sets LastWriteTimestamp to the current time; a fetch
\* failure on a later page sends the cycle on with exactly the events of the
\* pages fetched before, and when that cycle reaches its watermark write
\* LastProcessedEventTimestamp ends no older than any of those events.
FetchFailureHandling ==
  [][\A p \in Procs :
       /\ (PageFetchFails(p) /\ loc[p].events = << >>) =>
            /\ pc'[p] = Ret(p)
            /\ Catalog(rdb') = Catalog(rdb)
            /\ rdb'.evTs = rdb.evTs
            /\ ~CtxDone(p) => rdb'.writeTs = now
       /\ (PageFetchFails(p) /\ loc[p].events # << >>) =>
            /\ pc'[p] = "evProc"
            /\ rdb' = rdb
       /\ EndsCutCycle(p) =>
            /\ rdb'.evTs >= MaxDateAdded(loc[p].events)
            /\ rdb'.writeTs = now]_vars


\* C40: a full synchronization writes LastProcessedEventTimestamp only when
\* both phases returned no error and the maximum date_updated they returned is
\* above zero, and then (the writes not failing) it writes that maximum; when a
\* phase failed the watermark is left as it was; LastWriteTimestamp is set to
\* the current time whatever the phases returned, unless the write itself
\* fails; and the writes touch nothing else.
WatermarkGate ==
  [][\A p \in Procs :
       FullSyncEnds(p) =>
         LET succeeded == loc[p].errMaps = NoErr /\ loc[p].errScripts = NoErr
             maximum == Max(loc[p].maxTsMaps, loc[p].maxTsScripts)
             written == ~CtxDone(p) /\ faults' = faults
         IN  /\ ~(succeeded /\ maximum > 0) => rdb'.evTs = rdb.evTs
             /\ (succeeded /\ maximum > 0 /\ written) => rdb'.evTs = maximum
             /\ written => rdb'.writeTs = now
             /\ Catalog(rdb') = Catalog(rdb)]_vars

\* C40's case: the Map phase of a full synchronization has failed, the Script
\* phase has succeeded and returned a maximum above zero, and the cycle is at
\* its watermark writes with its context alive and a write timestamp to
\* refresh.
WatermarkGateWitness ==
  \E p \in Procs :
    /\ pc[p] = "fullTs"
    /\ ~CtxDone(p)
    /\ loc[p].errMaps # NoErr
    /\ loc[p].errScripts = NoErr
    /\ loc[p].maxTsScripts > 0
    /\ rdb.writeTs # now

====
